---- MODULE Spec2Model ----
(***************************************************************************)
(* Verification model of the hitony-server voice gateway: the per-session  *)
(* transport handler (app/ws_server.py), the pipeline orchestrator and the *)
(* music consumer (app/pipeline.py), the player tools                      *)
(* (app/tools/builtin/player.py) and the tool executor                     *)
(* (app/tools/executor.py).                                                *)
(*                                                                         *)
(* Every asyncio task is a process whose position (pc) is the await it is  *)
(* suspended on.  One action resumes a task from one await and runs the    *)
(* synchronous code up to the next await; a message handler with no await  *)
(* that matters is one action.  Task.cancel() is a request: the            *)
(* CancelledError is raised in the task when it is next resumed.           *)
(***************************************************************************)
EXTENDS Integers, Sequences, FiniteSets, TLC

\* ------------------------------------------------------------------ bounds
MaxOld == 1           \* superseded pipeline tasks that are still unwinding
MaxPackets == 1       \* inbound audio frames buffered per utterance
MaxDecodes == 2       \* runs that decode and transcribe one utterance buffer
BATCH_SIZE == 2       \* frames per outbound batch (10 in pipeline.py:471, scaled)
MaxKeepalives == 2    \* silence keepalive frames sent during one tool call
MaxFrames == 8        \* frames in one list handed to the delivery scheduler
MaxSendTicks == 2     \* clock ticks one socket write can take
MaxConns == 2         \* connections that present the same device_id
MaxMeetings == 2      \* meetings started in one session
MaxChunks == 2        \* utterances recorded into one meeting
MaxReminders == 2     \* rows of the reminders table
MaxScans == 2         \* the clock of the scheduler, in scan intervals
GraceTicks == 1       \* the grace window (3600 s) in scan intervals
MaxTokens == 3        \* words, spaces and punctuation marks in a routed text
MaxRegistrations == 3 \* calls of register_tool
MAX_HISTORY == 3      \* entries kept per device (20 in llm.py:15, scaled)
MaxMessages == 6      \* messages appended to or loaded into one history
MaxBuffered == 2      \* utterances in the meeting buffer when the connection ends
MaxSourceFrames == 3  \* frames the music source can yield

\* ------------------------------------------------------- program constants
MUSIC_PRE_BUFFER_BATCHES == 2
PRE_BUFFER_BATCHES == 2
\* The batch periods in clock ticks (0.51 s and 0.48 s in pipeline.py)
BATCH_PERIOD == 3
MUSIC_BATCH_PERIOD == 2

\* What the user can say; the transcript of an utterance.
Texts == {"play", "pause", "resume", "stop", "hello"}

\* Abort reasons sent by the device.
Reasons == {"wake_word_detected", "user_stop"}

NoTool == "none"

\* router.route restricted to the playback rules and everything else.
RouteIntent(text) ==
    CASE text = "play"   -> "youtube.play"
      [] text = "pause"  -> "player.pause"
      [] text = "resume" -> "player.resume"
      [] text = "stop"   -> "player.stop"
      [] OTHER           -> NoTool

\* pipeline._infer_emotion followed by the test of _send_expression: TRUE iff
\* an expression message is sent for a router-matched tool.
SendsExpression(tool) == tool \in {"youtube.play", "player.resume"}

\* The test that guards the final auto-resume of _process_and_speak.
IsPlaybackTool(tool) ==
    tool \in {"player.pause", "player.resume", "player.stop", "player.next", "youtube.play"}

VARIABLES
    opus_packets,        \* session.opus_packets: the buffered utterance frames
    listening,           \* session.listening
    tts_abort,           \* session.tts_abort
    processing,          \* session.processing
    music_playing,       \* session.music_playing
    music_paused,        \* session.music_paused
    music_abort,         \* session.music_abort
    music_pause_event,   \* session._music_pause_event.is_set()
    ws_closed,           \* ws.closed
    run,                 \* session._process_task: position and locals of the latest pipeline task
    old,                 \* the superseded pipeline tasks not yet finished, by position
    handler_log,         \* what the handler of the last device message logged, if the claims name it
    stop_abort_seen,     \* an explicit-stop abort arrived while music played
    resume_unacked,      \* a resume of a paused playing stream not yet answered by music_resume
    ex,                  \* the executor under test (tool call in execute_tool)
    tn,                  \* the action resolution of the current utterance and session._pending_tool_call
    sb,                  \* the delivery of one frame list: the wire, the clock, the locals of the scheduler
    cn,                  \* the connections of one device_id and its entry in _active_connections
    mt,                  \* the meeting recording of a session, the meeting records and the audio files
    rm,                  \* the reminders table and the scan of the background scheduler
    rt,                  \* a call of the rule router: the text and what route returned
    tl,                  \* _tools, the tool catalog
    vl,                  \* session.volume, the device's connection and the last volume tool call
    hs,                  \* _conversations[device_id] and a call of plan_intent
    dc,                  \* the finally block of handle_client for one connection
    ms,                  \* one call of _stream_music and the frame source it consumes
    rd,                  \* the tool part of _process_and_speak and the TTS round the device has open
    ut                   \* the pipeline task of an utterance and the runs that decoded its buffer

vars == <<opus_packets, listening, tts_abort, processing, music_playing,
          music_paused, music_abort, music_pause_event,
          ws_closed, run, old, handler_log, stop_abort_seen, resume_unacked,
          ex, tn, sb, cn, mt, rm, rt, tl, vl, hs, dc, ms, rd, ut>>

\* The parts of the state outside the transport handler, the pipeline tasks and
\* the executor
\* The state outside the session and its connections
newer == <<dc, ms, rd, ut>>
extra == <<tl, vl, hs, newer>>
more == <<rm, rt, extra>>


aux == <<tn, sb, cn, mt, more>>

sessionFlags == <<opus_packets, listening, tts_abort, processing, music_playing,
                  music_paused, music_abort, music_pause_event, ws_closed>>

\* The session, its tasks and its connections
base == <<sessionFlags, run, old, handler_log, stop_abort_seen, resume_unacked,
          ex, tn, sb, cn, mt>>

\* Locals of a pipeline task that has not started or has finished.
IdleTask == [pc |-> "none", cancel |-> FALSE, text |-> "", tool |-> NoTool,
             hint |-> FALSE, expr |-> FALSE, reply |-> FALSE,
             was_paused |-> FALSE, tts_open |-> FALSE,
             batch |-> 0, batch_count |-> 0,
             woken |-> FALSE, stop_blocked |-> FALSE]

\* Where a superseded task can still be: on the empty-audio exit, inside the
\* try block of _stream_music, sending music_end, or in the inner finally of
\* run_pipeline.  A superseded task has a cancellation pending in the first
\* two positions.
OldPcs == {"empty_send", "stream", "music_end_send", "finalize"}

\* The executor between two calls of execute_tool
ExIdle == [pc |-> "idle", tool |-> NoTool, args |-> {}, handler |-> "none",
           hresult |-> "none", result |-> "none", missing |-> "none",
           filled |-> "none", keepalives |-> 0]

\* session._pending_tool_call is None
NoPending == [tool |-> "none", missing |-> "none", args |-> {}]

\* The resolution between two utterances: the locals of _process_and_speak
\* are unset; pending is session._pending_tool_call.
TnIdle == [pc |-> "idle", pending |-> NoPending, text |-> "", tool |-> NoTool,
           args |-> {}, filled |-> "none", hint |-> FALSE, reply |-> "none",
           routed |-> FALSE, planned |-> FALSE, unknown |-> FALSE,
           spoke |-> FALSE, raised |-> FALSE, failed |-> FALSE,
           aborted |-> FALSE, stored |-> FALSE]

\* No delivery under way.  pacing_start = -1 is None.
SbIdle == [pc |-> "idle", mode |-> "none", input |-> <<>>, rest |-> <<>>,
           batch |-> <<>>, idx |-> 0, wire |-> <<>>, sent |-> 0,
           now |-> 0, pacing_start |-> -1, target |-> 0, slept |-> 0,
           gaps |-> <<>>, stopped |-> FALSE, resumed |-> FALSE,
           aborted |-> FALSE]

\* The connections 1..MaxConns of one device, numbered in the order they are
\* accepted; entry = 0 is no entry in _active_connections for the device.
Conns == 1..MaxConns
\* What a connection presents in its x-device-id and x-device-token headers:
\* a header missing or empty, a token that neither the devices table nor the
\* legacy registry accepts, a token the devices table verifies, a token the
\* legacy registry holds
Creds == {"missing", "invalid", "db", "legacy"}
CLOSE_UNAUTHORIZED == 4401
CnInit == [st |-> [c \in Conns |-> "none"], closed |-> [c \in Conns |-> FALSE],
           entry |-> 0, registered |-> <<>>,
           cred |-> [c \in Conns |-> "none"], code |-> [c \in Conns |-> 0],
           session |-> [c \in Conns |-> FALSE],
           handled |-> [c \in Conns |-> FALSE]]

\* Session.__init__ for the meeting fields, an empty meetings table and no
\* audio file.  db_id = 0 is a session without the attribute meeting_db_id
\* (it is set by meeting_start only).
MtInit == [connected |-> TRUE, active |-> FALSE, session_id |-> 0, db_id |-> 0,
           buffer |-> <<>>, records |-> <<>>, files |-> {}, meetings |-> 0,
           was_active |-> FALSE]

\* An empty reminders table and the scheduler asleep before its first scan.
\* marks are the values the scan has assigned to rows and not committed yet
\* (0 is no assignment).
RmInit == [pc |-> "sleep", now |-> 0, scan_now |-> 0, rem |-> <<>>,
           due |-> <<>>, k |-> 1, marks |-> <<>>, batch_idx |-> 0, sent |-> 0]

\* _process_and_speak has not reached its tool part; the device has no TTS
\* round open
RdInit == [pc |-> "idle", tts_session_open |-> FALSE, result |-> "none",
           device_round |-> FALSE]

\* No pipeline task yet; superseded is a cancelled task still suspended on
\* the empty-audio exit; decodes counts the runs that decoded the buffer and
\* called the transcription on it since the last begin-utterance
UtInit == [pc |-> "none", superseded |-> FALSE, decodes |-> 0]

\* No text routed yet
RtInit == [called |-> FALSE, text |-> <<>>, result |-> [rule |-> 0]]

\* The names tools are registered under, and what a ToolDef holds besides its
\* name: the handler and the long_running flag
RegNames == {"volume.set", "timer.set"}
ToolDefs == [handler : {"f", "g"}, long_running : BOOLEAN]
NoDef == [handler |-> "none", long_running |-> FALSE]

\* _tools = {} at import; first remembers the definition each name was
\* registered with first, calls counts the register_tool calls
TlInit == [tools |-> [n \in RegNames |-> NoDef],
           first |-> [n \in RegNames |-> NoDef], calls |-> 0]

\* A session without a volume attribute (-1; the tools read it as 60), a
\* device that is connected and no volume tool called yet
VlInit == [volume |-> -1, connected |-> TRUE, op |-> "none", before |-> -1,
           result |-> "none"]

\* No history for the device (the empty list stands for the missing key, which
\* every operation reads as the empty list); log is every message that has
\* entered the history since it was last loaded, n numbers the messages;
\* detached says that the list plan_intent holds is no longer the device's
HsInit == [conv |-> <<>>, log |-> <<>>, n |-> 0, pc |-> "idle",
           detached |-> FALSE]

\* An open connection in its message loop: the device's entry is in
\* _active_connections; task is session._process_task (none, running, done
\* or cancelled); log lists what the finally block has done, in order
DcInit == [pc |-> "loop", entry |-> TRUE, flags |-> FALSE, task |-> "none",
           meeting_active |-> FALSE, buffer |-> 0, db_id |-> FALSE,
           row |-> "none", audio |-> FALSE, conv |-> 0, stored |-> -1,
           log |-> <<>>]

\* Before _stream_music is called: the generator object exists and has not
\* run.  gen is the state of the async generator of music.opus_generator:
\* "suspended" (not started, or at a yield), "running" (inside __anext__) or
\* "closed" (its finally block has run: pipe task cancelled, processes
\* terminated)
MsInit == [pc |-> "idle", gen |-> "suspended", left |-> 0, batch |-> 0,
           abort |-> FALSE, closed |-> FALSE, gate |-> TRUE]

\* Session.__init__
SessionInit ==
    /\ opus_packets = <<>>
    /\ listening = FALSE
    /\ tts_abort = FALSE
    /\ processing = FALSE
    /\ music_playing = FALSE
    /\ music_paused = FALSE
    /\ music_abort = FALSE
    /\ music_pause_event = TRUE
    /\ ws_closed = FALSE
    /\ run = IdleTask
    /\ old = [k \in OldPcs |-> 0]
    /\ handler_log = "none"
    /\ stop_abort_seen = FALSE
    /\ resume_unacked = FALSE

Init == SessionInit /\ ex = ExIdle /\ tn = TnIdle /\ sb = SbIdle /\ cn = CnInit
        /\ mt = MtInit /\ rm = RmInit
        /\ rt = RtInit /\ tl = TlInit
        /\ vl = VlInit /\ hs = HsInit
        /\ dc = DcInit /\ ms = MsInit /\ rd = RdInit /\ ut = UtInit

\* ------------------------------------------------------------ asyncio pieces

\* asyncio.Event.set(): a task waiting on the pause gate is made ready; a
\* later clear() does not take that back.
EventSet(r) == IF r.pc = "gate_wait" THEN [r EXCEPT !.woken = TRUE] ELSE r

\* A stop opens the gate: a consumer it finds blocked there is woken.
StopWakes(r) ==
    IF r.pc = "gate_wait" /\ ~r.woken
    THEN [r EXCEPT !.woken = TRUE, !.stop_blocked = TRUE]
    ELSE r

\* The awaits inside the try block of _stream_music
MusicLoopPcs == {"music_next", "gate_wait", "music_resume_send", "batch_send",
                 "pacing_sleep", "final_send"}

Alive(r) == r.pc # "none"

OldCount == old["empty_send"] + old["stream"] + old["music_end_send"] + old["finalize"]

\* Task.cancel() on the session's task when it is replaced.  A task that has
\* not started never runs.  Elsewhere the CancelledError is raised at the
\* await the task is suspended on when the task next runs: the task stays
\* where that step writes session state (the empty-audio exit, whose handler
\* in _pipeline_wrapper clears processing, and the try block of
\* _stream_music, which catches the error).  From every other await the
\* error unwinds to the inner finally of run_pipeline without touching the
\* session, so the task is placed there.
Superseded(o, r) ==
    CASE r.pc \in {"none", "created"} -> o
      [] r.pc = "empty_send"          -> [o EXCEPT !["empty_send"] = @ + 1]
      [] r.pc \in MusicLoopPcs        -> [o EXCEPT !["stream"] = @ + 1]
      [] OTHER                        -> [o EXCEPT !["finalize"] = @ + 1]

\* Task.cancel() on the session's task when it stays the session's task (the
\* disconnect); as above, with the request recorded in the task.
Cancelled(r) ==
    CASE r.pc = "created"      -> IdleTask
      [] r.pc = "empty_send"   -> [r EXCEPT !.cancel = TRUE]
      [] r.pc \in MusicLoopPcs -> [IdleTask EXCEPT !.pc = r.pc, !.tool = r.tool,
                                                   !.cancel = TRUE]
      [] OTHER                 -> [IdleTask EXCEPT !.pc = "finalize"]

\* ------------------------------------------------------- transport handler

\* _launch_pipeline without its "if session.processing: return" guard
LaunchPipeline_NoProcessingGuard ==
    /\ Superseded(old, run) # old => OldCount < MaxOld
    /\ old' = Superseded(old, run)
    /\ run' = [IdleTask EXCEPT !.pc = "created"]
    /\ handler_log' = "none"

\* ws_server._launch_pipeline
LaunchPipeline ==
    IF processing
    THEN /\ handler_log' = "already_processing"
         /\ UNCHANGED <<run, old>>
    ELSE /\ Superseded(old, run) # old => OldCount < MaxOld
         /\ old' = Superseded(old, run)
         /\ run' = [IdleTask EXCEPT !.pc = "created"]
         /\ handler_log' = "none"

\* handle_text_message: "audio_start", and "listen" with state "start"
AudioStart ==
    /\ ~ws_closed
    /\ opus_packets' = <<>>
    /\ listening' = TRUE
    /\ tts_abort' = FALSE
    /\ handler_log' = "none"
    /\ UNCHANGED <<processing, music_playing, music_paused, music_abort,
                   music_pause_event, ws_closed, run, old,
                   stop_abort_seen, resume_unacked, ex, aux>>

\* handle_client: a binary message is appended while listening
BinaryFrame ==
    /\ ~ws_closed
    /\ listening
    /\ Len(opus_packets) < MaxPackets
    /\ opus_packets' = Append(opus_packets, "frame")
    /\ handler_log' = "none"
    /\ UNCHANGED <<listening, tts_abort, processing, music_playing, music_paused,
                   music_abort, music_pause_event, ws_closed, run, old,
                   stop_abort_seen, resume_unacked, ex, aux>>

\* handle_text_message: "audio_end", and "listen" with state "stop"
EndUtterance ==
    /\ ~ws_closed
    /\ listening' = FALSE
    /\ LaunchPipeline
    /\ UNCHANGED <<opus_packets, tts_abort, processing, music_playing,
                   music_paused, music_abort, music_pause_event, ws_closed,
                   stop_abort_seen, resume_unacked, ex, aux>>

\* The abort handler with the else of its wake-word branch dropped: the TTS
\* abort is flagged on every abort.
HandleAbort_AlwaysFlagsTts(reason) ==
    /\ ~ws_closed
    /\ IF music_playing /\ reason = "wake_word_detected"
       THEN /\ music_pause_event' = FALSE
            /\ music_paused' = TRUE
            /\ handler_log' = "paused_for_voice"
            /\ UNCHANGED stop_abort_seen
       ELSE /\ stop_abort_seen' = (stop_abort_seen \/ music_playing)
            /\ handler_log' = "none"
            /\ UNCHANGED <<music_pause_event, music_paused>>
    /\ tts_abort' = TRUE
    /\ UNCHANGED <<opus_packets, listening, processing, music_playing,
                   music_abort, ws_closed, run, old, resume_unacked, ex, aux>>

\* handle_text_message: "abort"
HandleAbort(reason) ==
    /\ ~ws_closed
    /\ IF music_playing /\ reason = "wake_word_detected"
       THEN /\ music_pause_event' = FALSE
            /\ music_paused' = TRUE
            /\ handler_log' = "paused_for_voice"
            /\ UNCHANGED <<tts_abort, stop_abort_seen>>
       ELSE /\ tts_abort' = TRUE
            /\ stop_abort_seen' = (stop_abort_seen \/ music_playing)
            /\ handler_log' = "none"
            /\ UNCHANGED <<music_pause_event, music_paused>>
    /\ UNCHANGED <<opus_packets, listening, processing, music_playing,
                   music_abort, ws_closed, run, old, resume_unacked, ex, aux>>

\* handle_text_message: "music_ctrl"
MusicCtrl(action) ==
    /\ ~ws_closed
    /\ CASE action = "pause" ->
              /\ music_pause_event' = FALSE
              /\ music_paused' = TRUE
              /\ UNCHANGED <<music_abort, run, resume_unacked>>
         [] action = "resume" ->
              /\ music_pause_event' = TRUE
              /\ music_paused' = FALSE
              /\ run' = EventSet(run)
              /\ resume_unacked' = (resume_unacked \/ (music_playing /\ music_paused))
              /\ UNCHANGED music_abort
         [] action = "stop" ->
              /\ music_abort' = TRUE
              /\ music_pause_event' = TRUE
              /\ run' = StopWakes(run)
              /\ UNCHANGED <<music_paused, resume_unacked>>
    /\ handler_log' = "none"
    /\ UNCHANGED <<opus_packets, listening, tts_abort, processing, music_playing,
                   ws_closed, old, stop_abort_seen, ex, aux>>

\* handle_client, finally: the connection is gone; flag abort and open the gate
Disconnect ==
    /\ ~ws_closed
    /\ ws_closed' = TRUE
    /\ tts_abort' = TRUE
    /\ music_abort' = TRUE
    /\ music_pause_event' = TRUE
    /\ run' = EventSet(run)
    /\ handler_log' = "none"
    /\ UNCHANGED <<opus_packets, listening, processing, music_playing,
                   music_paused, old, stop_abort_seen, resume_unacked, ex, aux>>

\* handle_client, finally: the bounded wait for the pipeline task ran out
ForceCancel ==
    /\ ws_closed
    /\ run.pc \notin {"none", "finalize"}
    /\ ~run.cancel
    /\ run' = Cancelled(run)
    /\ UNCHANGED <<sessionFlags, old, handler_log, stop_abort_seen,
                   resume_unacked, ex, aux>>

\* ------------------------------------------------------ pipeline orchestrator
\* The part of the state a pipeline task can write, as one value, so that the
\* synchronous code between two awaits composes as functions on it.
Cur == [run |-> run, processing |-> processing, playing |-> music_playing,
        paused |-> music_paused, mabort |-> music_abort,
        gate |-> music_pause_event, unacked |-> resume_unacked,
        sas |-> stop_abort_seen]

Commit(m) ==
    /\ run' = m.run
    /\ processing' = m.processing
    /\ music_playing' = m.playing
    /\ music_paused' = m.paused
    /\ music_abort' = m.mabort
    /\ music_pause_event' = m.gate
    /\ resume_unacked' = m.unacked
    /\ stop_abort_seen' = m.sas
    /\ UNCHANGED <<opus_packets, listening, tts_abort, ws_closed, old,
                   handler_log, ex, aux>>

\* "if session.tts_abort or ws.closed" between the phases
Aborted == tts_abort \/ ws_closed

Goto(m, loc) == [m EXCEPT !.run.pc = loc]

\* run_pipeline, inner finally: the keepalive task is cancelled and awaited.
\* The locals are dead from here on.
Finish(m) ==
    [m EXCEPT !.run = [IdleTask EXCEPT !.pc = "finalize"]]

\* run_pipeline, outer finally (and the handlers of _pipeline_wrapper, which
\* run in the same step): processing is cleared and the task is done.
EndRun(m) == [m EXCEPT !.processing = FALSE, !.run = IdleTask]

\* pipeline._auto_resume_music(session, was_paused)
AutoResume(m) ==
    IF m.run.was_paused /\ m.playing /\ m.paused
    THEN [m EXCEPT !.gate = TRUE, !.paused = FALSE, !.unacked = TRUE]
    ELSE m

\* _process_and_speak, the last statement: auto-resume unless the tool is a
\* player or playback tool; then the run returns.
AfterResult(m) ==
    IF IsPlaybackTool(m.run.tool) THEN Finish(m)
    ELSE Finish(AutoResume(m))

\* _stream_music up to its first await (the music_start message).  The tool
\* of the run is a playback tool, so was_paused is not read again.
StreamMusicStart(m) ==
    [m EXCEPT !.playing = TRUE, !.paused = FALSE, !.mabort = FALSE,
              !.gate = TRUE, !.unacked = FALSE, !.sas = FALSE,
              !.run = [m.run EXCEPT
                            !.pc = "music_start_send",
                            !.tts_open = FALSE, !.was_paused = FALSE,
                            !.batch = 0, !.batch_count = 0]]

\* The finally of _stream_music without "session.music_paused = False"
MusicExit_KeepsPaused(m) ==
    LET m1 == [m EXCEPT !.playing = FALSE,
                        !.unacked = FALSE, !.sas = FALSE,
                        !.run.batch = 0, !.run.batch_count = 0,
                        !.run.woken = FALSE,
                        !.run.stop_blocked = FALSE]
    IN IF ws_closed THEN AfterResult(m1) ELSE Goto(m1, "music_end_send")

\* _stream_music, finally: the flags are cleared and music_end is sent unless
\* the connection is closed; afterwards _process_and_speak goes on.
MusicExit(m) ==
    LET m1 == [m EXCEPT !.playing = FALSE, !.paused = FALSE,
                        !.unacked = FALSE, !.sas = FALSE,
                        !.run.batch = 0, !.run.batch_count = 0,
                        !.run.woken = FALSE,
                        !.run.stop_blocked = FALSE]
    IN IF ws_closed THEN AfterResult(m1) ELSE Goto(m1, "music_end_send")

\* _stream_music after the loop: the last partial batch is flushed unless the
\* stream was stopped.
AfterLoop(m) ==
    IF m.run.batch > 0 /\ ~m.mabort /\ ~ws_closed
    THEN Goto(m, "final_send")
    ELSE MusicExit(m)

\* _stream_music, loop body after the gate: the frame joins the batch and a
\* full batch is written.
TakePacket(m) ==
    LET n == m.run.batch + 1
    IN IF n >= BATCH_SIZE
       THEN [m EXCEPT !.run.batch = n, !.run.pc = "batch_send"]
       ELSE [m EXCEPT !.run.batch = n, !.run.pc = "music_next"]

\* _process_and_speak, "6. Handle tool result"
HandleResult(m, result) ==
    IF result = "music"
    THEN IF m.run.tts_open THEN Goto(m, "pre_music_end_send")
         ELSE StreamMusicStart(m)
    ELSE Goto(m, "res_synth")

\* player.player_pause
PlayerPause(m) ==
    IF m.playing THEN [m EXCEPT !.gate = FALSE, !.paused = TRUE] ELSE m

\* player.player_resume
PlayerResume(m) ==
    IF m.paused
    THEN [m EXCEPT !.gate = TRUE, !.paused = FALSE,
                   !.unacked = (m.unacked \/ m.playing)]
    ELSE m

\* player.player_stop
PlayerStop(m) ==
    IF m.playing
    THEN [m EXCEPT !.mabort = TRUE, !.gate = TRUE]
    ELSE m

\* _process_and_speak, the abort check before the tool and execute_tool for
\* the playback tools.  The player handlers contain no await: they run inside
\* this step.
ExecuteTool(m) ==
    LET tool == m.run.tool
    IN IF Aborted
       THEN IF m.run.tts_open THEN Goto(m, "abort_end_send")
            ELSE Finish(m)
       ELSE CASE tool = "player.pause"  -> HandleResult(PlayerPause(m), "tts")
              [] tool = "player.resume" -> HandleResult(PlayerResume(m), "tts")
              [] tool = "player.stop"   -> HandleResult(PlayerStop(m), "tts")
              [] OTHER                  -> Goto(m, "tool_exec")

\* _process_and_speak, "5. Handle chat" and the hint of "6. Execute tool".
\* The locals read here for the last time are reset.
AfterExpr(m) ==
    LET m0 == [m EXCEPT !.run.expr = FALSE, !.run.hint = FALSE,
                        !.run.reply = FALSE]
    IN IF m.run.tool = "chat"
       THEN IF m.run.reply THEN Goto(m0, "chat_synth")
            ELSE Finish(AutoResume(m0))
       ELSE IF m.run.hint THEN Goto(m0, "hint_synth")
            ELSE ExecuteTool(m0)

\* _process_and_speak from the abort check after the resolution to the
\* expression message
Resolved(m) ==
    IF Aborted THEN Finish(m)
    ELSE LET m1 == [m EXCEPT !.run.was_paused = (m.playing /\ m.paused)]
         IN IF m1.run.expr THEN Goto(m1, "expr_send")
            ELSE AfterExpr(m1)

\* _process_and_speak from its start to the router; the transcript is not
\* read after the router.
ProcessAndSpeak(m) ==
    IF Aborted THEN Finish(m)
    ELSE LET tool == RouteIntent(m.run.text)
             m0 == [m EXCEPT !.run.text = ""]
         IN IF tool # NoTool
            THEN Resolved([m0 EXCEPT !.run.tool = tool,
                                     !.run.hint = TRUE,
                                     !.run.expr = SendsExpression(tool)])
            ELSE Goto(m0, "llm")

At(loc) == run.pc = loc /\ ~run.cancel

\* The awaits from which a frame batch is on its way to the device
WritePcs == {"batch_send", "final_send"}

\* _pipeline_wrapper and run_pipeline up to the first await: the empty-audio
\* exit, processing = True, the Opus decode and the start of the ASR call.
StartRun ==
    /\ run.pc = "created"
    /\ IF opus_packets = <<>>
       THEN Commit(Goto(Cur, "empty_send"))
       ELSE \E decoded \in BOOLEAN :
              LET m == [Cur EXCEPT !.processing = TRUE]
              IN IF ~decoded THEN Commit(Goto(m, "err_send"))
                 ELSE IF Aborted THEN Commit(Finish(m))
                 ELSE Commit(Goto(m, "asr"))

\* run_pipeline: the "empty audio" error has been sent; the run returns
\* without having touched processing.
EmptySend ==
    /\ At("empty_send")
    /\ Commit([Cur EXCEPT !.run = IdleTask])

\* An error message (decode, ASR or LLM failure) has been sent; the run ends.
ErrSend ==
    /\ At("err_send")
    /\ Commit(Finish(Cur))

\* _decode_and_asr: transcribe_pcm returns a transcript (possibly empty) or
\* raises
Transcribe ==
    /\ At("asr")
    /\ \/ Commit(Goto(Cur, "err_send"))
       \/ \E text \in Texts \cup {""} :
            Commit([Cur EXCEPT !.run.text = text,
                               !.run.pc = "asr_text_send"])

\* _decode_and_asr after the asr_text message, then _process_and_speak
AsrTextSent ==
    /\ At("asr_text_send")
    /\ IF run.text = "" THEN Commit(Finish(Cur))
       ELSE Commit(ProcessAndSpeak(Cur))

\* _process_and_speak: plan_intent returns a chat intent (with or without a
\* reply, with or without an emotion to show) or raises
PlanIntent ==
    /\ At("llm")
    /\ \/ Commit(Goto(Cur, "err_send"))
       \/ \E reply \in BOOLEAN, emotion \in BOOLEAN :
            Commit(Resolved([Cur EXCEPT !.run.tool = "chat",
                                        !.run.reply = reply,
                                        !.run.expr = emotion]))

\* _send_expression has sent the expression message
ExprSent ==
    /\ At("expr_send")
    /\ Commit(AfterExpr(Cur))

\* chat: synthesize_tts returns or raises
ChatSynth ==
    /\ At("chat_synth")
    /\ \/ Commit(Goto(Cur, "chat_err_send"))
       \/ IF Aborted THEN Commit(Finish(AutoResume(Cur)))
          ELSE Commit(Goto(Cur, "chat_round"))

\* chat: the "TTS failed" error has been sent
ChatErrSent ==
    /\ At("chat_err_send")
    /\ Commit(Finish(AutoResume(Cur)))

\* chat: _send_tts_round has returned
ChatRound ==
    /\ At("chat_round")
    /\ Commit(Finish(AutoResume(Cur)))

\* hint: synthesize_tts returns or raises (the failure is only logged)
HintSynth ==
    /\ At("hint_synth")
    /\ \/ Commit(ExecuteTool(Cur))
       \/ Commit(Goto(Cur, "hint_start_send"))

\* hint: the round counted as open whether or not tts_start was written
HintStartSent_OpenAnyway ==
    /\ At("hint_start_send")
    /\ \E ok \in BOOLEAN :
         /\ ws_closed => ~ok
         /\ IF ok THEN Commit([Cur EXCEPT !.run.tts_open = TRUE,
                                          !.run.pc = "hint_stream"])
            ELSE Commit(ExecuteTool([Cur EXCEPT !.run.tts_open = TRUE]))

\* hint: tts_start was sent (or the send failed)
HintStartSent ==
    /\ At("hint_start_send")
    /\ \E ok \in BOOLEAN :
         /\ ws_closed => ~ok
         /\ IF ok THEN Commit([Cur EXCEPT !.run.tts_open = TRUE,
                                          !.run.pc = "hint_stream"])
            ELSE Commit(ExecuteTool(Cur))

\* hint: _stream_batched has returned
HintStreamed ==
    /\ At("hint_stream")
    /\ Commit(ExecuteTool(Cur))

\* The tts_end that closes the hint round of an aborted run has been sent
AbortEndSent ==
    /\ At("abort_end_send")
    /\ Commit(Finish(Cur))

\* execute_tool for youtube.play: search_and_stream returns a frame source or
\* raises (an error result)
ToolExec ==
    /\ At("tool_exec")
    /\ \E result \in {"music", "error"} : Commit(HandleResult(Cur, result))

\* The tts_end that closes the hint round before the music has been sent
PreMusicEndSent ==
    /\ At("pre_music_end_send")
    /\ Commit(StreamMusicStart(Cur))

\* Result or error text: synthesize_tts returns or raises
ResultSynth ==
    /\ At("res_synth")
    /\ \/ IF run.tts_open THEN Commit(Goto(Cur, "res_fail_end_send"))
          ELSE Commit(Finish(Cur))
       \/ Commit(Goto(Cur, "res_stream"))

\* The tts_end after a failed result synthesis has been sent; the run returns
ResultFailEndSent ==
    /\ At("res_fail_end_send")
    /\ Commit(Finish(Cur))

\* The result audio and its tts_end have been sent
ResultStreamed ==
    /\ At("res_stream")
    /\ Commit(AfterResult(Cur))

\* _stream_music: the music_start message has been sent; the loop asks the
\* source for its first frame
MusicStartSent ==
    /\ At("music_start_send")
    /\ Commit(Goto(Cur, "music_next"))

\* _stream_music: the source yields a frame, ends, or raises.  With a frame
\* in hand the loop tests the stop flag and then the pause gate.
MusicNext ==
    /\ At("music_next")
    /\ \/ IF music_abort \/ ws_closed THEN Commit(AfterLoop(Cur))
          ELSE IF ~music_pause_event
          THEN Commit([Cur EXCEPT !.run.pc = "gate_wait",
                                  !.run.woken = FALSE])
          ELSE Commit(TakePacket(Cur))
       \/ Commit(AfterLoop(Cur))
       \/ Commit(MusicExit(Cur))

\* The gate wait without the stop test that follows it
GateWait_NoStopTest ==
    /\ At("gate_wait")
    /\ run.woken
    /\ Commit(Goto(Cur, "music_resume_send"))

\* _stream_music: the wait on the pause gate returns
GateWait ==
    /\ At("gate_wait")
    /\ run.woken
    /\ IF music_abort \/ ws_closed THEN Commit(AfterLoop(Cur))
       ELSE Commit(Goto(Cur, "music_resume_send"))

\* _stream_music: music_resume has been sent; pacing restarts and the frame
\* that waited at the gate joins the batch
MusicResumeSent ==
    /\ At("music_resume_send")
    /\ Commit(TakePacket([Cur EXCEPT !.unacked = FALSE,
                                     !.run.batch_count = 0]))

\* _stream_music: the write of a full batch returns.  batch_count is kept up
\* to MUSIC_PRE_BUFFER_BATCHES: beyond it only the pacing target depends on
\* it, and whether that target is already past is the choice of "late".
BatchSent ==
    /\ At("batch_send")
    /\ \E ok \in BOOLEAN, late \in BOOLEAN :
         /\ ws_closed => ~ok
         /\ IF ~ok THEN Commit(AfterLoop(Cur))
            ELSE LET c == IF run.batch_count < MUSIC_PRE_BUFFER_BATCHES
                          THEN run.batch_count + 1 ELSE run.batch_count
                     m == [Cur EXCEPT !.run.batch = 0,
                                      !.run.batch_count = c]
                 IN IF c < MUSIC_PRE_BUFFER_BATCHES \/ late
                    THEN Commit(Goto(m, "music_next"))
                    ELSE Commit(Goto(m, "pacing_sleep"))

\* _stream_music: the pacing sleep is over
PacingSlept ==
    /\ At("pacing_sleep")
    /\ Commit(Goto(Cur, "music_next"))

\* _stream_music: the write of the last partial batch returns
FinalSent ==
    /\ At("final_send")
    /\ Commit(MusicExit(Cur))

\* _stream_music, finally: music_end has been sent
MusicEndSent ==
    /\ At("music_end_send")
    /\ Commit(AfterResult(Cur))

\* run_pipeline: the cancelled keepalive task has been awaited
Finalize ==
    /\ run.pc = "finalize"
    /\ Commit(EndRun(Cur))

\* The CancelledError of a requested cancellation is raised in the session's
\* task at the await it is suspended on.  On the empty-audio exit it reaches
\* _pipeline_wrapper, which clears processing; _stream_music catches it
\* inside its try block and goes on with its finally.
CancelledAtAwait ==
    /\ run.cancel
    /\ LET m == [Cur EXCEPT !.run.cancel = FALSE]
       IN IF run.pc = "empty_send"
          THEN Commit([m EXCEPT !.processing = FALSE, !.run = IdleTask])
          ELSE Commit(MusicExit(m))

\* ------------------------------------------------------- superseded tasks

OldStep(from, to) ==
    old' = IF to = "done" THEN [old EXCEPT ![from] = @ - 1]
           ELSE [old EXCEPT ![from] = @ - 1, ![to] = @ + 1]

\* A superseded task cancelled on the empty-audio exit: the CancelledError
\* reaches _pipeline_wrapper, which clears processing.
OldEmptySendCancelled ==
    /\ old["empty_send"] > 0
    /\ OldStep("empty_send", "done")
    /\ processing' = FALSE
    /\ UNCHANGED <<opus_packets, listening, tts_abort, music_playing,
                   music_paused, music_abort, music_pause_event, ws_closed, run,
                   handler_log, stop_abort_seen, resume_unacked, ex, aux>>

\* A superseded task cancelled inside the try block of _stream_music: the
\* error is caught there and the finally clears the music flags and sends
\* music_end unless the connection is closed.
OldStreamCancelled ==
    /\ old["stream"] > 0
    /\ OldStep("stream", IF ws_closed THEN "finalize" ELSE "music_end_send")
    /\ music_playing' = FALSE
    /\ music_paused' = FALSE
    /\ resume_unacked' = FALSE
    /\ stop_abort_seen' = FALSE
    /\ UNCHANGED <<opus_packets, listening, tts_abort, processing, music_abort,
                   music_pause_event, ws_closed, run, handler_log, ex, aux>>

\* A superseded task has sent music_end; its tool was a playback tool, so
\* _process_and_speak returns without an auto-resume.
OldMusicEndSent ==
    /\ old["music_end_send"] > 0
    /\ OldStep("music_end_send", "finalize")
    /\ UNCHANGED <<sessionFlags, run, handler_log, stop_abort_seen,
                   resume_unacked, ex, aux>>

\* A superseded task leaves run_pipeline: the outer finally (and the handler
\* of _pipeline_wrapper) clears processing.
OldFinalize ==
    /\ old["finalize"] > 0
    /\ OldStep("finalize", "done")
    /\ processing' = FALSE
    /\ UNCHANGED <<opus_packets, listening, tts_abort, music_playing,
                   music_paused, music_abort, music_pause_event, ws_closed, run,
                   handler_log, stop_abort_seen, resume_unacked, ex, aux>>

Next ==
    \/ AudioStart
    \/ BinaryFrame
    \/ EndUtterance
    \/ \E reason \in Reasons : HandleAbort(reason)
    \/ \E action \in {"pause", "resume", "stop"} : MusicCtrl(action)
    \/ Disconnect
    \/ ForceCancel
    \/ StartRun \/ EmptySend \/ ErrSend \/ Transcribe
    \/ AsrTextSent \/ PlanIntent \/ ExprSent
    \/ ChatSynth \/ ChatErrSent \/ ChatRound
    \/ HintSynth \/ HintStartSent \/ HintStreamed \/ AbortEndSent
    \/ ToolExec \/ PreMusicEndSent
    \/ ResultSynth \/ ResultFailEndSent \/ ResultStreamed
    \/ MusicStartSent \/ MusicNext \/ GateWait \/ MusicResumeSent
    \/ BatchSent \/ PacingSlept \/ FinalSent \/ MusicEndSent
    \/ Finalize \/ CancelledAtAwait
    \/ OldEmptySendCancelled \/ OldStreamCancelled \/ OldMusicEndSent
    \/ OldFinalize

Spec == Init /\ [][Next]_vars


\* ------------------------------------------------------------ tool executor
\* The registry (tools/registry.py) restricted to five tools: the declared
\* parameters in declaration order with their required flag, and the
\* long_running flag.
Registry ==
    [t \in {"reminder.set", "youtube.play", "web.search", "weather.query",
            "player.stop"} |->
       CASE t = "reminder.set" ->
              [params |-> <<[name |-> "datetime_iso", required |-> TRUE],
                            [name |-> "message", required |-> TRUE],
                            [name |-> "response", required |-> FALSE]>>,
               long_running |-> FALSE]
         [] t = "youtube.play" ->
              [params |-> <<[name |-> "query", required |-> TRUE]>>,
               long_running |-> FALSE]
         [] t = "web.search" ->
              [params |-> <<[name |-> "query", required |-> TRUE]>>,
               long_running |-> TRUE]
         [] t = "weather.query" ->
              [params |-> <<[name |-> "query", required |-> FALSE],
                            [name |-> "city", required |-> FALSE]>>,
               long_running |-> TRUE]
         [] t = "player.stop" ->
              [params |-> <<>>, long_running |-> FALSE]]

\* Tool names a call can carry: the registered ones and one that is not
ToolNames == DOMAIN Registry \cup {"nosuch.tool"}

\* Argument names a call can carry
ArgNames == {"datetime_iso", "message", "response", "query", "city"}

\* ToolResult.type
ResultTypes == {"tts", "music", "ask_user", "silent", "error"}

\* How a handler can end: it returns a ToolResult, raises asyncio.TimeoutError
\* (an HTTP client timing out), or raises any other Exception.
HandlerOutcomes == {"returned", "raised", "raised_timeout"}

\* execute_tool, "Validate required params": the indexes of the declared
\* parameters that are required and absent from args
MissingAt(params, args) ==
    {i \in 1..Len(params) : params[i].required /\ params[i].name \notin args}

\* The validation loop reporting the last missing parameter instead
FirstMissing_Last(params, args) ==
    LET i == CHOOSE k \in MissingAt(params, args) :
                 \A j \in MissingAt(params, args) : k >= j
    IN params[i].name

\* The first of them in declaration order
FirstMissing(params, args) ==
    LET i == CHOOSE k \in MissingAt(params, args) :
                 \A j \in MissingAt(params, args) : k <= j
    IN params[i].name

\* "return task.result()" under "except Exception": the handler's result, or
\* an error result for a handler that raised
TaskResult(e) ==
    IF e.handler = "returned"
    THEN [e EXCEPT !.pc = "returned", !.result = e.hresult]
    ELSE [e EXCEPT !.pc = "returned", !.result = "error"]

\* _execute_with_keepalive from the loop test to the next await
KeepaliveLoop(e) ==
    IF e.handler # "running" THEN TaskResult(e)
    ELSE IF tts_abort \/ ws_closed
    THEN [e EXCEPT !.pc = "returned", !.handler = "cancelled",
                   !.result = "silent"]
    ELSE [e EXCEPT !.pc = "wait_for"]

sessionRest == <<opus_packets, listening, processing, music_playing,
                 music_paused, music_abort, music_pause_event, run, old,
                 handler_log, stop_abort_seen, resume_unacked, aux>>

\* execute_tool with the lookup raising for an unregistered name
\* (_tools[name] instead of _tools.get(name))
ExecuteToolEntry_LookupRaises(e) ==
    IF e.tool \notin DOMAIN Registry
    THEN [e EXCEPT !.pc = "escaped"]
    ELSE LET tool == Registry[e.tool]
         IN IF MissingAt(tool.params, e.args) # {}
            THEN [e EXCEPT !.pc = "returned", !.result = "ask_user",
                           !.missing = FirstMissing(tool.params, e.args)]
            ELSE IF tool.long_running
            THEN KeepaliveLoop([e EXCEPT !.handler = "running"])
            ELSE [e EXCEPT !.handler = "running", !.pc = "handler_await"]

\* execute_tool from its entry to its first await or its early return: the
\* registry lookup, the required-parameter validation, the dispatch
ExecuteToolEntry(e) ==
    IF e.tool \notin DOMAIN Registry
    THEN [e EXCEPT !.pc = "returned", !.result = "error"]
    ELSE LET tool == Registry[e.tool]
         IN IF MissingAt(tool.params, e.args) # {}
            THEN [e EXCEPT !.pc = "returned", !.result = "ask_user",
                           !.missing = FirstMissing(tool.params, e.args)]
            ELSE IF tool.long_running
            THEN KeepaliveLoop([e EXCEPT !.handler = "running"])
            ELSE [e EXCEPT !.handler = "running", !.pc = "handler_await"]

\* execute_tool(tool_name, args, ...) up to its first await
ExecuteToolCall(tool_name, args) ==
    /\ ex.pc = "idle"
    /\ ex' = ExecuteToolEntry([ExIdle EXCEPT !.tool = tool_name, !.args = args])
    /\ UNCHANGED <<sessionRest, tts_abort, ws_closed>>

\* The call that follows an ask_user result: _process_and_speak writes the
\* next transcript into the missing parameter of the stored partial
\* arguments and calls execute_tool for the same tool.
ExecuteToolFollowUp ==
    /\ ex.pc = "returned"
    /\ ex.result = "ask_user"
    /\ ex.handler = "none"
    /\ ex' = ExecuteToolEntry([ExIdle EXCEPT !.tool = ex.tool,
                                             !.args = ex.args \cup {ex.missing},
                                             !.filled = ex.missing])
    /\ UNCHANGED <<sessionRest, tts_abort, ws_closed>>

\* execute_tool, "result = await tool.handler(**args)" under "except
\* Exception": the handler returns or raises
HandlerAwaited ==
    /\ ex.pc = "handler_await"
    /\ \E outcome \in HandlerOutcomes, r \in ResultTypes :
         ex' = TaskResult([ex EXCEPT !.handler = outcome,
                                     !.hresult = IF outcome = "returned"
                                                 THEN r ELSE "none"])
    /\ UNCHANGED <<sessionRest, tts_abort, ws_closed>>

\* The handler task of a long-running tool ends while the executor is
\* suspended in wait_for or in the keepalive send
HandlerTaskEnds ==
    /\ ex.pc \in {"wait_for", "keepalive_send"}
    /\ ex.handler = "running"
    /\ \E outcome \in HandlerOutcomes, r \in ResultTypes :
         ex' = [ex EXCEPT !.handler = outcome,
                          !.hresult = IF outcome = "returned" THEN r ELSE "none"]
    /\ UNCHANGED <<sessionRest, tts_abort, ws_closed>>

\* _execute_with_keepalive: wait_for(shield(task), 2.0) ends because the
\* handler task ended.  It returns the task's result or raises the task's
\* exception; only asyncio.TimeoutError is caught there.
WaitForEnds ==
    /\ ex.pc = "wait_for"
    /\ ex.handler # "running"
    /\ ex' = CASE ex.handler = "returned"       -> KeepaliveLoop(ex)
               [] ex.handler = "raised_timeout" -> [ex EXCEPT !.pc = "keepalive_send"]
               [] OTHER                         -> [ex EXCEPT !.pc = "escaped"]
    /\ UNCHANGED <<sessionRest, tts_abort, ws_closed>>

\* _execute_with_keepalive: wait_for times out after two seconds
WaitForTimeout ==
    /\ ex.pc = "wait_for"
    /\ ex.handler = "running"
    /\ ex.keepalives < MaxKeepalives
    /\ ex' = [ex EXCEPT !.pc = "keepalive_send"]
    /\ UNCHANGED <<sessionRest, tts_abort, ws_closed>>

\* _execute_with_keepalive: the silence frame has been sent; back to the
\* loop test
KeepaliveSent ==
    /\ ex.pc = "keepalive_send"
    /\ ex' = KeepaliveLoop([ex EXCEPT !.keepalives =
                                IF @ < MaxKeepalives THEN @ + 1 ELSE @])
    /\ UNCHANGED <<sessionRest, tts_abort, ws_closed>>

\* The orchestrator has the result, or the exception that execute_tool let
\* through; the executor is ready for the next call.
ExecuteToolDone ==
    /\ ex.pc \in {"returned", "escaped"}
    /\ ex' = ExIdle
    /\ UNCHANGED <<sessionRest, tts_abort, ws_closed>>

\* handle_text_message, "abort" with no music playing, during a tool call
AbortDuringTool ==
    /\ ~ws_closed
    /\ ~tts_abort
    /\ tts_abort' = TRUE
    /\ UNCHANGED <<sessionRest, ws_closed, ex, aux>>

\* handle_text_message, "audio_start": the next utterance clears the abort
ListenDuringTool ==
    /\ ~ws_closed
    /\ tts_abort
    /\ tts_abort' = FALSE
    /\ UNCHANGED <<sessionRest, ws_closed, ex, aux>>

\* The device connection closes during a tool call
CloseDuringTool ==
    /\ ~ws_closed
    /\ ws_closed' = TRUE
    /\ UNCHANGED <<sessionRest, tts_abort, ex, aux>>

NextExec ==
    \/ \E tool_name \in ToolNames, args \in SUBSET ArgNames :
         ExecuteToolCall(tool_name, args)
    \/ ExecuteToolFollowUp
    \/ HandlerAwaited
    \/ HandlerTaskEnds
    \/ WaitForEnds
    \/ WaitForTimeout
    \/ KeepaliveSent
    \/ ExecuteToolDone
    \/ AbortDuringTool
    \/ ListenDuringTool
    \/ CloseDuringTool

SpecExec == Init /\ [][NextExec]_vars

\* -------------------------------------------------------- action resolution
\* The utterances of one session, one pipeline run after the other, with the
\* resolution of _process_and_speak in full: the pending follow-up, the rule
\* router, the planner, the validation of the tool name, the tool call (made
\* through the executor above) and the handling of its result.  The awaits of
\* the expression message and of the hint round are one position each, and
\* music streaming is left to the specification of the music consumer.

\* Transcripts of this part: two the router matches and one it does not
TurnTexts == {"play", "stop", "hello"}

\* RouteMatch.args of the router rules: the playback rule extracts the query
RouteArgs(text) == IF text = "play" THEN {"query"} ELSE {}

\* What the planner's JSON can hold under "args": a dict in which "response"
\* and "reply_hint" are each absent, an empty string or a text, or a value
\* that is not a dict (null, a list, a string).
NotADict == [dict |-> FALSE, response |-> "absent", reply_hint |-> "absent"]

ArgShapes ==
    [dict : {TRUE}, response : {"absent", "empty", "text"},
     reply_hint : {"absent", "empty", "text"}] \cup {NotADict}

\* args.get("reply_hint", args.get("response", <apology>)): "raise" stands for
\* the AttributeError of a value without get
FallbackReply(shape) ==
    IF ~shape.dict THEN "raise"
    ELSE IF shape.reply_hint # "absent" THEN shape.reply_hint
    ELSE IF shape.response # "absent" THEN shape.response
    ELSE "text"

\* args.get("response", "") of a chat intent
ChatReply(shape) ==
    IF ~shape.dict THEN "raise"
    ELSE IF shape.response = "text" THEN "text" ELSE "empty"

\* The run is over: run_pipeline returns (or the exception reaches
\* _pipeline_wrapper)
TurnEnd(t) == [t EXCEPT !.pc = "ended", !.text = ""]

\* _process_and_speak, "6. Execute tool": the hint round if there is a hint,
\* then the abort check and the call of execute_tool
TurnToTool(t) ==
    IF t.hint THEN [t EXCEPT !.pc = "hint"]
    ELSE IF Aborted THEN TurnEnd([t EXCEPT !.aborted = TRUE])
    ELSE [t EXCEPT !.pc = "tool"]

\* _process_and_speak from the abort check after the resolution: the
\* validation of the tool name and the chat branch up to its synthesis
TurnResolved(t, shape) ==
    IF Aborted THEN TurnEnd([t EXCEPT !.aborted = TRUE])
    ELSE IF t.tool # "chat" /\ t.tool \notin DOMAIN Registry
    THEN LET r == FallbackReply(shape)
             t1 == [t EXCEPT !.unknown = TRUE, !.tool = "chat", !.args = {}]
         IN IF r = "raise" THEN TurnEnd([t1 EXCEPT !.raised = TRUE])
            ELSE IF r = "empty" THEN TurnEnd(t1)
            ELSE [t1 EXCEPT !.pc = "chat_synth"]
    ELSE IF t.tool = "chat"
    THEN LET r == ChatReply(shape)
         IN IF r = "raise" THEN TurnEnd([t EXCEPT !.raised = TRUE])
            ELSE IF r = "empty" THEN TurnEnd(t)
            ELSE [t EXCEPT !.pc = "chat_synth"]
    ELSE TurnToTool(t)

\* _process_and_speak without "session._pending_tool_call = None"
TurnResolve_KeepsPending(t) ==
    IF Aborted THEN TurnEnd([t EXCEPT !.aborted = TRUE])
    ELSE IF t.pending # NoPending
    THEN TurnResolved([t EXCEPT !.tool = t.pending.tool,
                                !.args = t.pending.args \cup {t.pending.missing},
                                !.filled = t.pending.missing],
                      NotADict)
    ELSE IF RouteIntent(t.text) # NoTool
    THEN TurnResolved([t EXCEPT !.routed = TRUE,
                                !.tool = RouteIntent(t.text),
                                !.args = RouteArgs(t.text),
                                !.hint = TRUE],
                      NotADict)
    ELSE [t EXCEPT !.routed = TRUE, !.pc = "llm"]

\* _process_and_speak from its start: the abort check, the pending follow-up
\* (the transcript fills the missing parameter and the stored call is
\* cleared), else the router, else the planner.  A follow-up and a router
\* match carry a registered tool, so the shape of args is not read for them.
TurnResolve(t) ==
    IF Aborted THEN TurnEnd([t EXCEPT !.aborted = TRUE])
    ELSE IF t.pending # NoPending
    THEN TurnResolved([t EXCEPT !.pending = NoPending,
                                !.tool = t.pending.tool,
                                !.args = t.pending.args \cup {t.pending.missing},
                                !.filled = t.pending.missing],
                      NotADict)
    ELSE IF RouteIntent(t.text) # NoTool
    THEN TurnResolved([t EXCEPT !.routed = TRUE,
                                !.tool = RouteIntent(t.text),
                                !.args = RouteArgs(t.text),
                                !.hint = TRUE],
                      NotADict)
    ELSE [t EXCEPT !.routed = TRUE, !.pc = "llm"]

\* A step of the run: its new position and locals; when it arrives at the
\* tool call, execute_tool runs to its first await in the same step.
TurnCommit(t) ==
    /\ tn' = t
    /\ ex' = IF t.pc = "tool" /\ tn.pc # "tool"
             THEN ExecuteToolEntry([ExIdle EXCEPT !.tool = t.tool,
                                                  !.args = t.args,
                                                  !.filled = t.filled])
             ELSE ex
    /\ UNCHANGED <<opus_packets, listening, processing, music_playing,
                   music_paused, music_abort, music_pause_event, run, old,
                   handler_log, stop_abort_seen, resume_unacked,
                   tts_abort, ws_closed, sb, cn, mt, more>>

\* run_pipeline up to its first await: the empty-audio exit, the Opus decode
\* and the abort check of _decode_and_asr
TurnStart ==
    /\ tn.pc = "idle"
    /\ ~ws_closed
    /\ \E audio \in {"empty", "undecodable", "speech"} :
         IF audio # "speech" THEN TurnCommit(TurnEnd(tn))
         ELSE IF Aborted THEN TurnCommit(TurnEnd([tn EXCEPT !.aborted = TRUE]))
         ELSE TurnCommit([tn EXCEPT !.pc = "asr"])

\* _decode_and_asr: transcribe_pcm returns a transcript or raises
TurnAsr ==
    /\ tn.pc = "asr"
    /\ \/ TurnCommit(TurnEnd(tn))
       \/ \E text \in TurnTexts \cup {""} :
            TurnCommit([tn EXCEPT !.pc = "asr_text_send", !.text = text])

\* _decode_and_asr after the asr_text message; with a transcript,
\* _process_and_speak starts
TurnAsrTextSent ==
    /\ tn.pc = "asr_text_send"
    /\ IF tn.text = "" THEN TurnCommit(TurnEnd(tn))
       ELSE TurnCommit(TurnResolve(tn))

\* plan_intent returns an intent or raises (a chat intent whose args is not a
\* dict raises inside plan_intent)
TurnPlan ==
    /\ tn.pc = "llm"
    /\ \/ TurnCommit(TurnEnd(tn))
       \/ \E tool \in ToolNames \cup {"chat"}, args \in SUBSET ArgNames,
             shape \in ArgShapes, hint \in BOOLEAN :
            /\ tool \in DOMAIN Registry => shape = NotADict
            /\ tool \notin DOMAIN Registry => args = {}
            /\ tool = "chat" => shape.dict /\ ~hint
            /\ TurnCommit(TurnResolved([tn EXCEPT !.planned = TRUE,
                                                  !.tool = tool,
                                                  !.args = args,
                                                  !.hint = hint],
                                       shape))

\* The hint round is over (or its synthesis failed); the abort check and the
\* call of execute_tool follow
TurnHint ==
    /\ tn.pc = "hint"
    /\ TurnCommit(TurnToTool([tn EXCEPT !.hint = FALSE]))

\* chat: synthesize_tts returns or raises, then the abort check
TurnChatSynth ==
    /\ tn.pc = "chat_synth"
    /\ \/ TurnCommit(TurnEnd([tn EXCEPT !.failed = TRUE]))
       \/ IF Aborted THEN TurnCommit(TurnEnd([tn EXCEPT !.aborted = TRUE]))
          ELSE TurnCommit([tn EXCEPT !.pc = "chat_round"])

\* chat: _send_tts_round returns; the round was delivered unless a send
\* failed or the session aborted meanwhile
TurnChatRound ==
    /\ tn.pc = "chat_round"
    /\ IF Aborted THEN TurnCommit(TurnEnd([tn EXCEPT !.aborted = TRUE]))
       ELSE \/ TurnCommit(TurnEnd([tn EXCEPT !.spoke = TRUE]))
            \/ TurnCommit(TurnEnd([tn EXCEPT !.failed = TRUE]))

\* execute_tool has returned or let an exception through: "6. Handle tool
\* result".  An ask_user result of the executor's validation carries the
\* tool, the missing parameter and the partial arguments.
TurnToolResult ==
    /\ tn.pc = "tool"
    /\ ex.pc \in {"returned", "escaped"}
    /\ ex' = ExIdle
    /\ tn' = IF ex.pc = "escaped" THEN TurnEnd([tn EXCEPT !.raised = TRUE])
             ELSE CASE ex.result = "ask_user" -> [tn EXCEPT !.pc = "ask_speak"]
                    [] ex.result \in {"tts", "error"} -> [tn EXCEPT !.pc = "res_speak"]
                    [] OTHER -> TurnEnd(tn)
    /\ UNCHANGED <<opus_packets, listening, processing, music_playing,
                   music_paused, music_abort, music_pause_event, run, old,
                   handler_log, stop_abort_seen, resume_unacked,
                   tts_abort, ws_closed, sb, cn, mt, more>>

\* ask_user: the question was spoken (or that failed, which is ignored) and
\* the call is stored in session._pending_tool_call.  tn.args still holds
\* the partial arguments; a handler's own ask_user carries no call.
TurnAskSpoken ==
    /\ tn.pc = "ask_speak"
    /\ LET missing == FirstMissing(Registry[tn.tool].params, tn.args)
       IN IF MissingAt(Registry[tn.tool].params, tn.args) # {}
          THEN TurnCommit(TurnEnd([tn EXCEPT !.stored = TRUE,
                                             !.pending = [tool |-> tn.tool,
                                                          missing |-> missing,
                                                          args |-> tn.args]]))
          ELSE TurnCommit(TurnEnd(tn))

\* tts or error result: the text was synthesized and spoken, or that failed
TurnResultSpoken ==
    /\ tn.pc = "res_speak"
    /\ \/ TurnCommit(TurnEnd([tn EXCEPT !.spoke = ~Aborted]))
       \/ TurnCommit(TurnEnd([tn EXCEPT !.failed = TRUE]))

\* The run has ended; the session waits for the next utterance.  Only
\* session._pending_tool_call outlives the run.
TurnDone ==
    /\ tn.pc = "ended"
    /\ TurnCommit([TnIdle EXCEPT !.pending = tn.pending])

NextTurns ==
    \/ TurnStart \/ TurnAsr \/ TurnAsrTextSent \/ TurnPlan \/ TurnHint
    \/ TurnChatSynth \/ TurnChatRound
    \/ TurnToolResult \/ TurnAskSpoken \/ TurnResultSpoken \/ TurnDone
    \/ HandlerAwaited \/ HandlerTaskEnds \/ WaitForEnds \/ WaitForTimeout
    \/ KeepaliveSent
    \/ AbortDuringTool \/ ListenDuringTool \/ CloseDuringTool

SpecTurns == Init /\ [][NextTurns]_vars

\* -------------------------------------------------------- delivery scheduler
\* One call of _stream_batched (mode "tts") or the loop of _stream_music
\* (mode "music") with the frames themselves: what is written to the socket
\* and when.  Time is a clock in ticks that a socket write and a sleep
\* advance.

\* Opus frames as byte strings: frame i of a list carries its own number and
\* has one to three bytes, so that every frame of a list differs from the
\* others and some bytes of a frame look like a length prefix
FrameOf(i) == [j \in 1..(1 + (i % 3)) |-> IF j = 1 THEN i % 256 ELSE 0]

\* The frame lists up to the bound
FrameLists == {[i \in 1..n |-> FrameOf(i)] : n \in 0..MaxFrames}

\* struct.pack('>H', n) written low byte first
Pack16_LittleEndian(n) == <<n % 256, (n \div 256) % 256>>

\* struct.pack('>H', n): two bytes, high byte first
Pack16(n) == <<(n \div 256) % 256, n % 256>>

\* The blob of a batch: for each frame its length in two bytes, then its bytes
RECURSIVE Blob(_)
Blob(batch) ==
    IF batch = <<>> THEN <<>>
    ELSE Pack16(Len(Head(batch))) \o Head(batch) \o Blob(Tail(batch))

\* opus_packets[start:start + BATCH_SIZE] for batch batch_idx
BatchAt(frames, batch_idx) ==
    SubSeq(frames, batch_idx * BATCH_SIZE + 1,
           IF (batch_idx + 1) * BATCH_SIZE < Len(frames)
           THEN (batch_idx + 1) * BATCH_SIZE ELSE Len(frames))

\* num_batches = (total + BATCH_SIZE - 1) // BATCH_SIZE
NumBatches(frames) == (Len(frames) + BATCH_SIZE - 1) \div BATCH_SIZE

\* A successful write: the blob is on the wire, the frames are counted, the
\* sleep that preceded the write is noted
Written(s, batch, d) ==
    [s EXCEPT !.wire = Append(@, Blob(batch)), !.sent = @ + Len(batch),
              !.gaps = Append(@, s.slept), !.slept = 0, !.now = @ + d]

\* _stream_batched, the head of the loop for batch s.idx: the loop ends after
\* the last batch and breaks when the session is aborted or the connection
\* closed; otherwise the batch is handed to ws_send_safe.
StreamBatchedLoop_NoAbortTest(s) ==
    IF s.idx >= NumBatches(s.input) THEN [s EXCEPT !.pc = "done"]
    ELSE [s EXCEPT !.pc = "send"]

StreamBatchedLoop(s) ==
    IF s.idx >= NumBatches(s.input) THEN [s EXCEPT !.pc = "done"]
    ELSE IF tts_abort \/ ws_closed
    THEN [s EXCEPT !.pc = "done", !.stopped = TRUE]
    ELSE [s EXCEPT !.pc = "send"]

\* _stream_batched after a successful write with the paced phase dropped:
\* the next batch follows at once
StreamBatchedPace_NoSleep(s) == StreamBatchedLoop([s EXCEPT !.idx = @ + 1])

\* _stream_batched after a successful write: no delay inside the pre-buffer;
\* then the paced phase starts and the next batch is scheduled by the clock.
StreamBatchedPace(s) ==
    IF s.idx < PRE_BUFFER_BATCHES - 1
    THEN StreamBatchedLoop([s EXCEPT !.idx = @ + 1])
    ELSE LET start == IF s.pacing_start < 0 THEN s.now ELSE s.pacing_start
             s1 == [s EXCEPT !.pacing_start = start]
             target == start + (s.idx - PRE_BUFFER_BATCHES + 2) * BATCH_PERIOD
         IN IF s.idx < NumBatches(s.input) - 1 /\ s.now < target
            THEN [s1 EXCEPT !.pc = "sleep", !.target = target]
            ELSE StreamBatchedLoop([s1 EXCEPT !.idx = @ + 1])

\* _stream_batched(ws, session, opus_packets) up to its first await
StreamBatchedCall(frames) ==
    /\ sb.pc = "idle"
    /\ sb' = StreamBatchedLoop([SbIdle EXCEPT !.mode = "tts", !.input = frames])
    /\ UNCHANGED <<sessionFlags, run, old, handler_log, stop_abort_seen,
                   resume_unacked, ex, tn, cn, mt, more>>

\* _stream_batched: ws_send_safe returns.  A failed write ends the loop.
StreamBatchedSendReturns ==
    /\ sb.pc = "send" /\ sb.mode = "tts"
    /\ \E ok \in BOOLEAN, d \in 0..MaxSendTicks :
         /\ ws_closed => ~ok
         /\ sb' = IF ok
                  THEN StreamBatchedPace(Written(sb, BatchAt(sb.input, sb.idx), d))
                  ELSE [sb EXCEPT !.pc = "done", !.stopped = TRUE, !.now = @ + d]
    /\ UNCHANGED <<sessionFlags, run, old, handler_log, stop_abort_seen,
                   resume_unacked, ex, tn, cn, mt, more>>

\* asyncio.sleep(target - now) is over
SleepOver ==
    /\ sb.pc = "sleep"
    /\ LET s == [sb EXCEPT !.slept = @ + (sb.target - sb.now),
                           !.now = sb.target]
       IN sb' = IF sb.mode = "tts"
                THEN StreamBatchedLoop([s EXCEPT !.idx = @ + 1])
                ELSE [s EXCEPT !.pc = "next"]
    /\ UNCHANGED <<sessionFlags, run, old, handler_log, stop_abort_seen,
                   resume_unacked, ex, tn, cn, mt, more>>

\* The session flags the music consumer does not write
streamRest == <<opus_packets, listening, tts_abort, processing, ws_closed, run,
                old, handler_log, stop_abort_seen, resume_unacked, ex, tn, cn, mt, more>>

\* _stream_music, finally: the flags are cleared when the consumer leaves
StreamMusicCommit(s) ==
    /\ sb' = s
    /\ music_playing' = (IF s.pc = "done" THEN FALSE ELSE music_playing)
    /\ music_paused' = (IF s.pc = "done" THEN FALSE ELSE music_paused)
    /\ UNCHANGED <<music_abort, music_pause_event, streamRest>>

\* _stream_music after the loop: a last partial batch is written unless the
\* stream was stopped or the connection closed
StreamMusicAfterLoop(s) ==
    IF s.batch = <<>> THEN [s EXCEPT !.pc = "done"]
    ELSE IF music_abort \/ ws_closed
    THEN [s EXCEPT !.pc = "done", !.stopped = TRUE]
    ELSE [s EXCEPT !.pc = "final_send"]

\* _stream_music: batch.append(opus_packet); a full batch is written
StreamMusicAppend(s) ==
    LET s1 == [s EXCEPT !.batch = Append(@, Head(s.rest)), !.rest = Tail(@)]
    IN IF Len(s1.batch) >= BATCH_SIZE THEN [s1 EXCEPT !.pc = "send"]
       ELSE [s1 EXCEPT !.pc = "next"]

\* _stream_music(ws, session, title, generator) up to the first frame; the
\* generator will yield the frames of the list
StreamMusicCall(frames) ==
    /\ sb.pc = "idle"
    /\ sb' = [SbIdle EXCEPT !.mode = "music", !.input = frames,
                            !.rest = frames, !.pc = "next"]
    /\ music_playing' = TRUE
    /\ music_paused' = FALSE
    /\ music_abort' = FALSE
    /\ music_pause_event' = TRUE
    /\ UNCHANGED streamRest

\* _stream_music: the generator yields a frame or ends
StreamMusicNext ==
    /\ sb.pc = "next" /\ sb.mode = "music"
    /\ StreamMusicCommit(
         IF sb.rest = <<>> THEN StreamMusicAfterLoop(sb)
         ELSE IF music_abort \/ ws_closed
         THEN StreamMusicAfterLoop([sb EXCEPT !.stopped = TRUE])
         ELSE IF ~music_pause_event THEN [sb EXCEPT !.pc = "gate_wait"]
         ELSE StreamMusicAppend(sb))

\* _stream_music: the gate opened.  After a resume the pacing starts over:
\* pacing_start = None, batch_count = 0.
StreamMusicWake ==
    /\ sb.pc = "gate_wait" /\ music_pause_event
    /\ \E d \in 0..MaxSendTicks :
         StreamMusicCommit(
           IF music_abort \/ ws_closed
           THEN StreamMusicAfterLoop([sb EXCEPT !.stopped = TRUE, !.now = @ + d])
           ELSE StreamMusicAppend([sb EXCEPT !.pacing_start = -1, !.idx = 0,
                                             !.resumed = TRUE, !.now = @ + d]))

\* _stream_music after a successful write of a full batch, with every
\* deadline a period after the write before it
StreamMusicPace_FromNow(s) ==
    IF s.idx < MUSIC_PRE_BUFFER_BATCHES THEN [s EXCEPT !.pc = "next"]
    ELSE LET start == IF s.pacing_start < 0 THEN s.now ELSE s.pacing_start
             s1 == [s EXCEPT !.pacing_start = start]
             target == s.now + MUSIC_BATCH_PERIOD
         IN IF s.now < target THEN [s1 EXCEPT !.pc = "sleep", !.target = target]
            ELSE [s1 EXCEPT !.pc = "next"]

\* _stream_music after a successful write of a full batch
StreamMusicPace(s) ==
    IF s.idx < MUSIC_PRE_BUFFER_BATCHES THEN [s EXCEPT !.pc = "next"]
    ELSE LET start == IF s.pacing_start < 0 THEN s.now ELSE s.pacing_start
             s1 == [s EXCEPT !.pacing_start = start]
             target == start + (s.idx - MUSIC_PRE_BUFFER_BATCHES + 1)
                                 * MUSIC_BATCH_PERIOD
         IN IF s.now < target THEN [s1 EXCEPT !.pc = "sleep", !.target = target]
            ELSE [s1 EXCEPT !.pc = "next"]

\* _stream_music: ws_send_safe returns for a full batch
StreamMusicSendReturns ==
    /\ sb.pc = "send" /\ sb.mode = "music"
    /\ \E ok \in BOOLEAN, d \in 0..MaxSendTicks :
         /\ ws_closed => ~ok
         /\ StreamMusicCommit(
              IF ok
              THEN StreamMusicPace([Written(sb, sb.batch, d)
                                      EXCEPT !.batch = <<>>, !.idx = @ + 1])
              ELSE StreamMusicAfterLoop([sb EXCEPT !.stopped = TRUE,
                                                   !.now = @ + d]))

\* _stream_music: ws_send_safe returns for the last partial batch; its
\* frames are counted whether the write succeeded or not
StreamMusicFinalSent ==
    /\ sb.pc = "final_send"
    /\ \E ok \in BOOLEAN, d \in 0..MaxSendTicks :
         /\ ws_closed => ~ok
         /\ StreamMusicCommit(
              IF ok THEN [Written(sb, sb.batch, d) EXCEPT !.pc = "done"]
              ELSE [sb EXCEPT !.pc = "done", !.stopped = TRUE, !.now = @ + d,
                              !.sent = @ + Len(sb.batch)])

\* The caller has the result; the scheduler can be called again
StreamReturn ==
    /\ sb.pc = "done"
    /\ sb' = SbIdle
    /\ UNCHANGED <<sessionFlags, run, old, handler_log, stop_abort_seen,
                   resume_unacked, ex, tn, cn, mt, more>>

\* handle_text_message, "abort" with no music playing: the flag is set (and
\* tts_end sent); aborted notes that it arrived during a delivery of
\* _stream_batched
AbortDuringStream ==
    /\ ~ws_closed
    /\ ~tts_abort
    /\ ~music_playing
    /\ tts_abort' = TRUE
    /\ sb' = IF sb.mode = "tts" /\ sb.pc \in {"send", "sleep"}
             THEN [sb EXCEPT !.aborted = TRUE] ELSE sb
    /\ UNCHANGED <<opus_packets, listening, processing, music_playing,
                   music_paused, music_abort, music_pause_event, run, old,
                   handler_log, stop_abort_seen, resume_unacked, ws_closed,
                   ex, tn, cn, mt, more>>

NextStream ==
    \/ \E frames \in FrameLists : StreamBatchedCall(frames)
    \/ StreamBatchedSendReturns
    \/ SleepOver
    \/ \E frames \in FrameLists : StreamMusicCall(frames)
    \/ StreamMusicNext
    \/ StreamMusicWake
    \/ StreamMusicSendReturns
    \/ StreamMusicFinalSent
    \/ StreamReturn
    \/ \E action \in {"pause", "resume", "stop"} : MusicCtrl(action)
    \/ AbortDuringStream
    \/ ListenDuringTool
    \/ CloseDuringTool

SpecStream == Init /\ [][NextStream]_vars

\* ------------------------------------------------------- active connections
\* handle_client for the connections that present one device_id, and the
\* device's entry in _active_connections.

\* _load_user_config: a UserConfig when the device row exists and verify_token
\* accepts the token, None otherwise and on any exception of the database
LoadUserConfig(cred, db_up) == db_up /\ cred = "db"

\* registry.is_valid(device_id, token)
IsValid(cred) == cred = "legacy"

\* handle_client: not (user_config is None and not registry.is_valid(...))
Authenticated(cred, db_up) == LoadUserConfig(cred, db_up) \/ IsValid(cred)

\* handle_client is called for a new connection: with a header missing it
\* goes to send the error and close, else it awaits the credentials check
ConnAccept(c) ==
    /\ cn.st[c] = "none"
    /\ \A b \in Conns : b < c => cn.st[b] # "none"
    /\ \E cred \in Creds :
          cn' = [cn EXCEPT !.cred[c] = cred,
                           !.st[c] = IF cred = "missing"
                                     THEN "reject" ELSE "auth"]
    /\ UNCHANGED <<sessionFlags, run, old, handler_log, stop_abort_seen,
                   resume_unacked, ex, tn, sb, mt, more>>

\* handle_client: a header is missing, or the token is invalid; the error
\* message is sent, ws.close(code=4401) is called and the handler returns
ConnRejected(c) ==
    /\ \/ cn.st[c] = "reject"
       \/ /\ cn.st[c] = "auth"
          /\ \E db_up \in BOOLEAN : ~Authenticated(cn.cred[c], db_up)
    /\ cn' = [cn EXCEPT !.st[c] = "gone", !.closed[c] = TRUE,
                        !.code[c] = CLOSE_UNAUTHORIZED]
    /\ UNCHANGED <<sessionFlags, run, old, handler_log, stop_abort_seen,
                   resume_unacked, ex, tn, sb, mt, more>>

\* handle_client: the credentials are accepted; session = Session(device_id)
\* and _active_connections[device_id] = (ws, session), whatever the entry was
ConnRegister_NoCheck(c) ==
    /\ cn.st[c] = "auth"
    /\ cn' = [cn EXCEPT !.st[c] = "open", !.entry = c, !.session[c] = TRUE,
                        !.registered = Append(@, c)]
    /\ UNCHANGED <<sessionFlags, run, old, handler_log, stop_abort_seen,
                   resume_unacked, ex, tn, sb, mt, more>>

ConnRegister(c) ==
    /\ cn.st[c] = "auth"
    /\ \E db_up \in BOOLEAN : Authenticated(cn.cred[c], db_up)
    /\ cn' = [cn EXCEPT !.st[c] = "open", !.entry = c, !.session[c] = TRUE,
                        !.registered = Append(@, c)]
    /\ UNCHANGED <<sessionFlags, run, old, handler_log, stop_abort_seen,
                   resume_unacked, ex, tn, sb, mt, more>>

\* The peer or the network closes the connection: ws.closed turns true; the
\* handler notices at its next read
ConnCloses(c) ==
    /\ cn.st[c] \in {"reject", "auth", "open"}
    /\ ~cn.closed[c]
    /\ cn' = [cn EXCEPT !.closed[c] = TRUE]
    /\ UNCHANGED <<sessionFlags, run, old, handler_log, stop_abort_seen,
                   resume_unacked, ex, tn, sb, mt, more>>

\* handle_client, the message loop: a message of the connection is read and
\* handled (handle_text_message, which launches the pipeline on audio_end, or
\* the append of an audio packet)
ConnMessage(c) ==
    /\ cn.st[c] = "open"
    /\ ~cn.closed[c]
    /\ ~cn.handled[c]
    /\ cn' = [cn EXCEPT !.handled[c] = TRUE]
    /\ UNCHANGED <<sessionFlags, run, old, handler_log, stop_abort_seen,
                   resume_unacked, ex, tn, sb, mt, more>>

\* handle_client, finally: the message loop ended, on a closed connection or
\* on an exception of a handler; _active_connections.pop(device_id, None)
ConnFinally(c) ==
    /\ cn.st[c] = "open"
    /\ cn' = [cn EXCEPT !.st[c] = "cleanup", !.entry = 0]
    /\ UNCHANGED <<sessionFlags, run, old, handler_log, stop_abort_seen,
                   resume_unacked, ex, tn, sb, mt, more>>

\* handle_client returns; the connection is closed if it was not
ConnGone(c) ==
    /\ cn.st[c] = "cleanup"
    /\ cn' = [cn EXCEPT !.st[c] = "gone", !.closed[c] = TRUE]
    /\ UNCHANGED <<sessionFlags, run, old, handler_log, stop_abort_seen,
                   resume_unacked, ex, tn, sb, mt, more>>

\* get_active_connection(device_id): the connection of the entry when it is
\* not closed, else None (0)
GetActiveConnection ==
    IF cn.entry # 0 /\ ~cn.closed[cn.entry] THEN cn.entry ELSE 0

NextConn ==
    \E c \in Conns :
        \/ ConnAccept(c)
        \/ ConnRejected(c)
        \/ ConnRegister(c)
        \/ ConnCloses(c)
        \/ ConnMessage(c)
        \/ ConnFinally(c)
        \/ ConnGone(c)

SpecConn == Init /\ [][NextConn]_vars

\* -------------------------------------------------------- meeting recording
\* The meeting fields of one session, the rows of the meetings table and the
\* audio files, under meeting.start, the recording of utterances, meeting.end
\* and the cleanup of handle_client.

\* The PCM of one utterance, in bytes: half a second and a second and a half
\* of 16 kHz 16-bit mono
PcmSizes == {16000, 48000}

\* len(session._meeting_audio_buffer)
RECURSIVE BufferBytes(_)
BufferBytes(buffer) ==
    IF buffer = <<>> THEN 0 ELSE Head(buffer) + BufferBytes(Tail(buffer))

\* int(len(buffer) / 2 / 16000)
DurationS(buffer) == (BufferBytes(buffer) \div 2) \div 16000

\* _save_meeting_audio: the file named after the meeting holds the buffer
SaveMeetingAudio(files, session_id, buffer) ==
    {f \in files : f.session_id # session_id}
        \cup {[session_id |-> session_id, pcm |-> buffer]}

\* _update_meeting_record(db_id, status="ended", duration_s, audio_path)
UpdateMeetingRecord(records, db_id, duration_s, audio_path) ==
    [records EXCEPT ![db_id] = [@ EXCEPT !.status = "ended",
                                         !.duration_s = duration_s,
                                         !.audio_path = audio_path]]

\* meeting_start: a new recording with an empty buffer; the row is created
\* unless the database fails, and only then is meeting_db_id set
MeetingStart(created) ==
    /\ mt.connected /\ ~mt.active
    /\ mt.meetings < MaxMeetings
    /\ LET sid == mt.meetings + 1
           m == [mt EXCEPT !.active = TRUE, !.session_id = sid,
                           !.buffer = <<>>, !.meetings = sid]
       IN mt' = IF created
                THEN [m EXCEPT !.records = Append(@, [session_id |-> sid,
                                        status |-> "recording", duration_s |-> 0,
                                        audio_path |-> 0]),
                               !.db_id = Len(mt.records) + 1]
                ELSE m
    /\ UNCHANGED <<sessionFlags, run, old, handler_log, stop_abort_seen,
                   resume_unacked, ex, tn, sb, cn, more>>

\* _decode_and_asr: the PCM of an utterance is added to the buffer of the
\* active recording
MeetingAudio(pcm) ==
    /\ mt.connected /\ mt.active
    /\ Len(mt.buffer) < MaxChunks
    /\ mt' = [mt EXCEPT !.buffer = Append(@, pcm)]
    /\ UNCHANGED <<sessionFlags, run, old, handler_log, stop_abort_seen,
                   resume_unacked, ex, tn, sb, cn, more>>

\* meeting_end: under a second of audio is dropped and the row ended with
\* duration 0; otherwise the audio is saved and the row ended.  Reading
\* meeting_db_id of a session that never had one raises.
MeetingEnd(saved, updated) ==
    /\ mt.connected /\ mt.active
    /\ LET m == [mt EXCEPT !.active = FALSE]
       IN mt' =
            IF BufferBytes(mt.buffer) < 32000
            THEN [m EXCEPT !.buffer = <<>>,
                           !.records = IF mt.db_id # 0 /\ updated
                                       THEN UpdateMeetingRecord(@, mt.db_id, 0, @[mt.db_id].audio_path)
                                       ELSE @]
            ELSE [m EXCEPT !.files = IF saved
                                     THEN SaveMeetingAudio(@, mt.session_id, mt.buffer)
                                     ELSE @,
                           !.records = IF mt.db_id # 0 /\ updated
                                       THEN UpdateMeetingRecord(@, mt.db_id,
                                                DurationS(mt.buffer),
                                                IF saved THEN mt.session_id ELSE 0)
                                       ELSE @]
    /\ UNCHANGED <<sessionFlags, run, old, handler_log, stop_abort_seen,
                   resume_unacked, ex, tn, sb, cn, more>>

\* handle_client, finally: a recording that is active and has audio is saved
\* and its row ended; an exception of the save or of the update is logged.
MeetingDisconnect(saved, updated) ==
    /\ mt.connected
    /\ mt' = IF mt.active /\ mt.buffer # <<>>
             THEN [mt EXCEPT !.connected = FALSE, !.was_active = TRUE,
                             !.active = FALSE,
                             !.files = IF saved
                                       THEN SaveMeetingAudio(@, mt.session_id, mt.buffer)
                                       ELSE @,
                             !.records = IF saved /\ mt.db_id # 0 /\ updated
                                         THEN UpdateMeetingRecord(@, mt.db_id,
                                                  DurationS(mt.buffer), mt.session_id)
                                         ELSE @]
             ELSE [mt EXCEPT !.connected = FALSE, !.was_active = mt.active]
    /\ UNCHANGED <<sessionFlags, run, old, handler_log, stop_abort_seen,
                   resume_unacked, ex, tn, sb, cn, more>>

NextMeeting ==
    \/ \E created \in BOOLEAN : MeetingStart(created)
    \/ \E pcm \in PcmSizes : MeetingAudio(pcm)
    \/ \E saved, updated \in BOOLEAN : MeetingEnd(saved, updated)
    \/ \E saved, updated \in BOOLEAN : MeetingDisconnect(saved, updated)

SpecMeeting == Init /\ [][NextMeeting]_vars

\* ------------------------------------------------------- reminder scheduler
\* _check_and_deliver and _push_tts_to_device over the reminders table, for
\* the reminders of one device whose connection is the session of this
\* module.  Of _stream_batched a push keeps the batch index and the count of
\* frames written; its pacing is left out here.

\* What the scheduler leaves alone
rmRest == <<base, rt, extra>>

\* The frames synthesize_tts returns for a reminder: one batch more than the
\* pre-buffer
ReminderFrames == [i \in 1..(PRE_BUFFER_BATCHES * BATCH_SIZE + 1) |-> FrameOf(i)]

\* The ids of a sequence of rows that satisfy a test, in table order
RECURSIVE DueFrom(_, _, _)
DueFrom(rem, k, now) ==
    IF k > Len(rem) THEN <<>>
    ELSE (IF rem[k].remind_at <= now /\ rem[k].delivered = 0 THEN <<k>> ELSE <<>>)
             \o DueFrom(rem, k + 1, now)

\* The scan goes on with the next due reminder, or commits after the last
ScanNext(m) ==
    IF m.k + 1 > Len(m.due) THEN [m EXCEPT !.k = @ + 1, !.pc = "commit"]
    ELSE [m EXCEPT !.k = @ + 1, !.pc = "loop"]

\* _check_and_deliver, the body of the loop after _push_tts_to_device
\* returned: delivered = 1 on success, delivered = 2 when the reminder is
\* overdue by more than the grace window, else no change
PushReturned(m, success) ==
    LET r == m.due[m.k]
    IN ScanNext([m EXCEPT !.marks[r] =
                     IF success THEN 1
                     ELSE IF m.scan_now - m.rem[r].remind_at > GraceTicks THEN 2
                     ELSE @])

\* reminder.set has stored a row
ReminderStored(remind_at) ==
    /\ Len(rm.rem) < MaxReminders
    /\ rm' = [rm EXCEPT !.rem = Append(@, [remind_at |-> remind_at,
                                  delivered |-> 0, pushed |-> FALSE,
                                  complete |-> FALSE]),
                        !.marks = Append(@, 0)]
    /\ UNCHANGED rmRest

\* start_reminder_scheduler: asyncio.sleep(CHECK_INTERVAL)
SchedulerSleeps ==
    /\ rm.pc = "sleep"
    /\ rm.now < MaxScans
    /\ rm' = [rm EXCEPT !.now = @ + 1]
    /\ UNCHANGED rmRest

\* _check_and_deliver: now is read once and the due undelivered rows are
\* selected
ScanStart ==
    /\ rm.pc = "sleep"
    /\ LET due == DueFrom(rm.rem, 1, rm.now)
       IN rm' = [rm EXCEPT !.scan_now = rm.now, !.due = due, !.k = 1,
                           !.marks = [i \in 1..Len(rm.rem) |-> 0],
                           !.pc = IF due = <<>> THEN "commit" ELSE "loop"]
    /\ UNCHANGED rmRest

\* _push_tts_to_device up to its first await: no open connection or a busy
\* session ends the push; otherwise the message is synthesized
PushBegin ==
    /\ rm.pc = "loop"
    /\ rm' = IF ws_closed \/ processing \/ listening \/ music_playing
             THEN PushReturned(rm, FALSE)
             ELSE [rm EXCEPT !.pc = "synth"]
    /\ UNCHANGED rmRest

\* _push_tts_to_device: synthesize_tts returns frames, nothing, or raises;
\* with frames, tts_start is sent
SynthReturns(out) ==
    /\ rm.pc = "synth"
    /\ rm' = IF out = "frames" THEN [rm EXCEPT !.pc = "start_send"]
             ELSE PushReturned(rm, FALSE)
    /\ UNCHANGED rmRest

\* _stream_batched inside a push, the head of its loop: after the last
\* batch, or when the session is aborted or the connection closed, it returns
\* and tts_end is sent; the count it returns is not looked at
PushStreamLoop(m) ==
    IF m.batch_idx >= NumBatches(ReminderFrames) \/ tts_abort \/ ws_closed
    THEN [m EXCEPT !.pc = "end_send",
                   !.rem[m.due[m.k]].complete = (m.sent = Len(ReminderFrames))]
    ELSE [m EXCEPT !.pc = "stream"]

\* _push_tts_to_device: the write of tts_start returns; on success
\* _stream_batched runs to its first await
PushStartSent(ok) ==
    /\ rm.pc = "start_send"
    /\ ws_closed => ~ok
    /\ rm' = IF ok
             THEN PushStreamLoop([rm EXCEPT !.rem[rm.due[rm.k]].pushed = TRUE,
                                            !.batch_idx = 0, !.sent = 0])
             ELSE PushReturned(rm, FALSE)
    /\ UNCHANGED rmRest

\* _stream_batched inside a push: the write of a batch returns; a failed
\* write ends the stream
PushBatchSent(ok) ==
    /\ rm.pc = "stream"
    /\ ws_closed => ~ok
    /\ rm' = IF ok
             THEN PushStreamLoop([rm EXCEPT
                      !.sent = @ + Len(BatchAt(ReminderFrames, rm.batch_idx)),
                      !.batch_idx = @ + 1])
             ELSE [rm EXCEPT !.pc = "end_send",
                             !.rem[rm.due[rm.k]].complete = FALSE]
    /\ UNCHANGED rmRest

\* _push_tts_to_device: the write of tts_end returns, whatever its outcome,
\* and the push returns True
PushEndSent ==
    /\ rm.pc = "end_send"
    /\ rm' = PushReturned(rm, TRUE)
    /\ UNCHANGED rmRest

\* _check_and_deliver: db.commit() writes the values assigned in the scan;
\* when it raises they are lost
ScanCommit(ok) ==
    /\ rm.pc = "commit"
    /\ rm' = [rm EXCEPT !.pc = "sleep", !.due = <<>>, !.k = 1,
                        !.batch_idx = 0, !.sent = 0,
                        !.marks = [i \in 1..Len(rm.rem) |-> 0],
                        !.rem = [i \in 1..Len(rm.rem) |->
                                   IF ok /\ i <= Len(rm.marks) /\ rm.marks[i] # 0
                                   THEN [rm.rem[i] EXCEPT !.delivered = rm.marks[i]]
                                   ELSE rm.rem[i]]]
    /\ UNCHANGED rmRest

\* The session's own work between the steps of the scheduler: the device
\* starts an utterance (audio_start), ends it, which launches a pipeline run
\* (audio_end), and the run finishes
SessionActivity ==
    /\ ~ws_closed
    /\ \/ ~listening /\ ~processing /\ listening' = TRUE /\ tts_abort' = FALSE
          /\ UNCHANGED processing
       \/ listening /\ listening' = FALSE /\ processing' = TRUE
          /\ UNCHANGED tts_abort
       \/ processing /\ processing' = FALSE /\ UNCHANGED <<listening, tts_abort>>
    /\ UNCHANGED <<opus_packets, music_playing, music_paused, music_abort,
                   music_pause_event, ws_closed, run, old, handler_log,
                   stop_abort_seen, resume_unacked, ex, aux>>

NextReminder ==
    \/ \E remind_at \in 0..MaxScans : ReminderStored(remind_at)
    \/ SchedulerSleeps
    \/ ScanStart
    \/ PushBegin
    \/ \E out \in {"frames", "empty", "raises"} : SynthReturns(out)
    \/ \E ok \in BOOLEAN : PushStartSent(ok)
    \/ \E ok \in BOOLEAN : PushBatchSent(ok)
    \/ PushEndSent
    \/ \E ok \in BOOLEAN : ScanCommit(ok)
    \/ SessionActivity
    \/ AbortDuringTool
    \/ CloseDuringTool

SpecReminder == Init /\ [][NextReminder]_vars

\* -------------------------------------------------------------- rule router
\* route(text) over texts made of a few words, the space and a punctuation
\* mark, with the rules of _build_rules that can match such texts, in the
\* order of the list.  A text is a sequence of tokens; a pattern is what the
\* regular expression of the rule accepts among these texts.

Tokens == {"play", "music", "stop", "search", "weather", " ", ".", "x"}
RouterTexts == UNION {[1..n -> Tokens] : n \in 0..MaxTokens}

\* str.strip(): leading and trailing whitespace removed
RECURSIVE LStrip(_)
LStrip(t) == IF t # <<>> /\ Head(t) = " " THEN LStrip(Tail(t)) ELSE t
RECURSIVE RStrip(_, _)
RStrip(t, chars) ==
    IF t # <<>> /\ t[Len(t)] \in chars THEN RStrip(SubSeq(t, 1, Len(t) - 1), chars)
    ELSE t
Strip(t) == RStrip(LStrip(t), {" "})

\* _strip_punctuation: trailing punctuation removed
StripPunctuation(t) == RStrip(t, {"."})

\* The rules, in list order
Rules == <<"play_query", "play_music", "stop", "weather", "search">>

RuleTool(rule) ==
    CASE rule \in {"play_query", "play_music"} -> "youtube.play"
      [] rule = "stop" -> "player.stop"
      [] rule = "weather" -> "weather.query"
      [] rule = "search" -> "web.search"

\* What follows the first token when one or more spaces and then at least
\* one more token follow it ("\s+(.+)"); <<>> when they do not
AfterSpaces(t) ==
    IF Len(t) >= 2 /\ t[2] = " " THEN LStrip(Tail(t)) ELSE <<>>

\* regex.match(text) for the rule
RuleMatches(rule, t) ==
    CASE rule = "play_query" ->      \* ^(?:play|put on|listen to)\s+(.+)
             t # <<>> /\ t[1] = "play" /\ AfterSpaces(t) # <<>>
      [] rule = "play_music" ->      \* ^(?:...|play(?:\s+some)?\s+music)$
             t # <<>> /\ t[1] = "play" /\ AfterSpaces(t) = <<"music">>
      [] rule = "stop" ->            \* ^(?:...|stop)$
             t = <<"stop">>
      [] rule = "weather" ->         \* ^(?:what'?s the |how'?s the )?weather
             t # <<>> /\ t[1] = "weather"
      [] rule = "search" ->          \* ^(?:...|search)\s*(.+)
             Len(t) >= 2 /\ t[1] = "search" /\ LStrip(Tail(t)) # <<>>

\* extractor(match): the arguments; has_query tells whether "query" is a key
RuleArgs(rule, t) ==
    CASE rule = "play_query" ->
             [has_query |-> TRUE, query |-> StripPunctuation(Strip(AfterSpaces(t)))]
      [] rule = "play_music" -> [has_query |-> TRUE, query |-> <<"hot songs">>]
      [] rule = "stop" -> [has_query |-> FALSE, query |-> <<>>]
      [] rule = "weather" -> [has_query |-> TRUE, query |-> <<"weather">>]
      [] rule = "search" ->
             [has_query |-> TRUE, query |-> StripPunctuation(Strip(LStrip(Tail(t))))]

NoRouteMatch == [rule |-> 0]
RouteMatch(k, t) == [rule |-> k, tool |-> RuleTool(Rules[k]), args |-> RuleArgs(Rules[k], t)]

\* The filter of route with no value of "query" counted as empty
EmptyQuery_Never(args) == FALSE

\* "query" in args and not args["query"]
EmptyQuery(args) == args.has_query /\ args.query = <<>>

\* The loop of route with the rules tried from the last to the first
RECURSIVE RouteFrom_LastFirst(_, _)
RouteFrom_LastFirst(t, k) ==
    LET j == Len(Rules) + 1 - k
    IN IF k > Len(Rules) THEN NoRouteMatch
       ELSE IF RuleMatches(Rules[j], t) /\ ~EmptyQuery(RuleArgs(Rules[j], t))
       THEN RouteMatch(j, t)
       ELSE RouteFrom_LastFirst(t, k + 1)

\* The loop of route from rule k on: the first rule that matches and whose
\* arguments do not hold an empty "query" gives the result
RECURSIVE RouteFrom(_, _)
RouteFrom(t, k) ==
    IF k > Len(Rules) THEN NoRouteMatch
    ELSE IF RuleMatches(Rules[k], t) /\ ~EmptyQuery(RuleArgs(Rules[k], t))
    THEN RouteMatch(k, t)
    ELSE RouteFrom(t, k + 1)

\* route(text)
Route(text) == RouteFrom(Strip(text), 1)

\* route is called with a text
RouteCall(text) ==
    /\ ~rt.called
    /\ rt' = [called |-> TRUE, text |-> text, result |-> Route(text)]
    /\ UNCHANGED <<base, rm, extra>>

\* The caller has the result
RouteReturns ==
    /\ rt.called
    /\ rt' = RtInit
    /\ UNCHANGED <<base, rm, extra>>

NextRouter ==
    \/ \E text \in RouterTexts : RouteCall(text)
    \/ RouteReturns

SpecRouter == Init /\ [][NextRouter]_vars

\* -------------------------------------------------------------- tool catalog
\* tools/registry.py: the module-level dict _tools under register_tool and
\* get_tool.
tlRest == <<base, rm, rt, vl, hs, newer>>

\* register_tool(name, ...)(func): _tools[name] = ToolDef(...)
RegisterTool(name, d) ==
    /\ tl.calls < MaxRegistrations
    /\ tl' = [tl EXCEPT !.tools[name] = d,
                        !.first[name] = IF @ = NoDef THEN d ELSE @,
                        !.calls = @ + 1]
    /\ UNCHANGED tlRest

\* get_tool(name): _tools.get(name), NoDef for None
GetTool(name) == tl.tools[name]

NextTools == \E name \in RegNames, d \in ToolDefs : RegisterTool(name, d)

SpecTools == Init /\ [][NextTools]_vars

\* ------------------------------------------------------------- volume tools
\* tools/builtin/volume.py: volume.set, volume.up and volume.down on one
\* session, whose device connects and disconnects.
vlRest == <<base, rm, rt, tl, hs, newer>>

\* The level argument of volume.set
Levels == {-10, 0, 20, 50, 90, 150}

\* max(0, min(100, level))
Clamp(level) == IF level < 0 THEN 0 ELSE IF level > 100 THEN 100 ELSE level

\* getattr(session, 'volume', 60)
CurrentVolume == IF vl.volume = -1 THEN 60 ELSE vl.volume

\* _send_volume: False with no active connection, else the message is sent
SendVolume == vl.connected

\* volume_set: the level is stored in the session, then sent
VolumeSet(level) ==
    /\ vl' = [vl EXCEPT !.op = "volume.set", !.before = vl.volume,
                        !.volume = Clamp(level),
                        !.result = IF SendVolume THEN "tts" ELSE "error"]
    /\ UNCHANGED vlRest

\* volume_up: ten more, at most 100, stored and then sent; the result is a tts
\* result on both branches
VolumeUp ==
    /\ vl' = [vl EXCEPT !.op = "volume.up", !.before = vl.volume,
                        !.volume = IF CurrentVolume + 10 > 100 THEN 100
                                   ELSE CurrentVolume + 10,
                        !.result = IF SendVolume THEN "tts" ELSE "tts"]
    /\ UNCHANGED vlRest

\* volume_down: ten less, at least 0
VolumeDown ==
    /\ vl' = [vl EXCEPT !.op = "volume.down", !.before = vl.volume,
                        !.volume = IF CurrentVolume - 10 < 0 THEN 0
                                   ELSE CurrentVolume - 10,
                        !.result = IF SendVolume THEN "tts" ELSE "tts"]
    /\ UNCHANGED vlRest

\* The device connects or disconnects between two tool calls
VolumeConnChange ==
    /\ vl' = [vl EXCEPT !.connected = ~@, !.op = "none", !.before = vl.volume,
                        !.result = "none"]
    /\ UNCHANGED vlRest

NextVolume ==
    \/ \E level \in Levels : VolumeSet(level)
    \/ VolumeUp
    \/ VolumeDown
    \/ VolumeConnChange

SpecVolume == Init /\ [][NextVolume]_vars

\* ----------------------------------------------------- conversation history
\* llm.py: _conversations[device_id] under load_conversation,
\* append_user_message, append_assistant_message and plan_intent.
hsRest == <<base, rm, rt, tl, vl, newer>>

\* seq[-MAX_HISTORY:]
LastN(seq, k) ==
    IF Len(seq) <= k THEN seq ELSE SubSeq(seq, Len(seq) - k + 1, Len(seq))

Message(role, id) == [role |-> role, id |-> id]

\* list.append followed by `if len(h) > MAX_HISTORY: h[:] = h[-MAX_HISTORY:]`
AppendTruncated(seq, m) == LastN(Append(seq, m), MAX_HISTORY)

\* load_conversation(device_id, history): the entry is bound to a new list,
\* the last MAX_HISTORY of the stored messages
LoadConversation(len) ==
    /\ hs.n + len <= MaxMessages
    /\ LET stored == [i \in 1..len |-> Message("user", hs.n + i)]
       IN hs' = [hs EXCEPT !.conv = LastN(stored, MAX_HISTORY),
                           !.log = stored, !.n = @ + len,
                           !.detached = (hs.pc = "await")]
    /\ UNCHANGED hsRest

\* append_user_message(device_id, text)
AppendUserMessage ==
    /\ hs.n < MaxMessages
    /\ LET m == Message("user", hs.n + 1)
       IN hs' = [hs EXCEPT !.conv = AppendTruncated(@, m),
                           !.log = Append(@, m), !.n = @ + 1]
    /\ UNCHANGED hsRest

\* append_assistant_message(device_id, text): an empty text is ignored
AppendAssistantMessage(empty) ==
    /\ hs.n < MaxMessages
    /\ LET m == Message("assistant", hs.n + 1)
       IN hs' = IF empty THEN [hs EXCEPT !.n = @ + 1]
                ELSE [hs EXCEPT !.conv = AppendTruncated(@, m),
                                !.log = Append(@, m), !.n = @ + 1]
    /\ UNCHANGED hsRest

\* plan_intent up to the await of the completion: the user message is
\* appended to the device's list and the list is truncated
PlanIntentCall ==
    /\ hs.pc = "idle"
    /\ hs.n < MaxMessages
    /\ LET m == Message("user", hs.n + 1)
       IN hs' = [hs EXCEPT !.conv = AppendTruncated(@, m),
                           !.log = Append(@, m), !.n = @ + 1,
                           !.pc = "await", !.detached = FALSE]
    /\ UNCHANGED hsRest

\* plan_intent after the completion: a response or reply_hint that is not
\* empty is appended to the list plan_intent holds, with no truncation; the
\* completion can also raise
PlanIntentReturns(empty) ==
    /\ hs.pc = "await"
    /\ hs.n < MaxMessages
    /\ LET m == Message("assistant", hs.n + 1)
       IN hs' = IF empty \/ hs.detached
                THEN [hs EXCEPT !.pc = "idle", !.detached = FALSE, !.n = @ + 1]
                ELSE [hs EXCEPT !.conv = Append(@, m), !.log = Append(@, m),
                                !.n = @ + 1, !.pc = "idle"]
    /\ UNCHANGED hsRest

NextHistory ==
    \/ \E len \in 0..(MAX_HISTORY + 2) : LoadConversation(len)
    \/ AppendUserMessage
    \/ \E empty \in BOOLEAN : AppendAssistantMessage(empty)
    \/ PlanIntentCall
    \/ \E empty \in BOOLEAN : PlanIntentReturns(empty)

SpecHistory == Init /\ [][NextHistory]_vars

\* ------------------------------------------------------ disconnect cleanup
\* ws_server.handle_client from the end of the message loop: the finally
\* block, for one connection with a pipeline task, a meeting recording and a
\* conversation history.
dcRest == <<base, rm, rt, tl, vl, hs, ms, rd, ut>>

\* While the connection is open: a pipeline run is launched or ends, a
\* meeting starts (the row is inserted or the insert fails) and records
\* utterances, the history grows
DcSessionStep ==
    /\ dc.pc = "loop"
    /\ \/ /\ dc.task \in {"none", "done"}
          /\ dc' = [dc EXCEPT !.task = "running"]
       \/ /\ dc.task = "running"
          /\ dc' = [dc EXCEPT !.task = "done"]
       \/ /\ ~dc.meeting_active
          /\ \E inserted \in BOOLEAN :
                dc' = [dc EXCEPT !.meeting_active = TRUE, !.buffer = 0,
                                 !.db_id = inserted,
                                 !.row = IF inserted THEN "recording"
                                         ELSE "none"]
       \/ /\ dc.meeting_active /\ dc.buffer < MaxBuffered
          /\ dc' = [dc EXCEPT !.buffer = @ + 1]
       \/ /\ dc.conv < MAX_HISTORY
          /\ dc' = [dc EXCEPT !.conv = @ + 1]
    /\ UNCHANGED dcRest

\* The finally block up to its first await, with the flags set before the
\* entry is popped
FinallyEntry_FlagsFirst(d) ==
    LET d1 == [d EXCEPT !.flags = TRUE, !.entry = FALSE,
                        !.log = @ \o <<"flags", "release">>]
    IN IF d.task = "running" THEN [d1 EXCEPT !.pc = "wait"]
       ELSE [d1 EXCEPT !.pc = "meeting"]

\* The finally block up to its first await: the entry is popped, the abort
\* flags are set and the pause event is set; a task that is not done is
\* awaited for two seconds at most
FinallyEntry(d) ==
    LET d1 == [d EXCEPT !.entry = FALSE, !.flags = TRUE,
                        !.log = @ \o <<"release", "flags">>]
    IN IF d.task = "running" THEN [d1 EXCEPT !.pc = "wait"]
       ELSE [d1 EXCEPT !.pc = "meeting"]

\* The message loop ends: ConnectionClosed or any other exception
DcLoopEnds ==
    /\ dc.pc = "loop"
    /\ dc' = FinallyEntry(dc)
    /\ UNCHANGED dcRest

\* wait_for(session._process_task, timeout=2.0) returns because the task
\* ended, or times out and the task is cancelled
DcWaitEnds ==
    /\ dc.pc = "wait"
    /\ \E timed_out \in BOOLEAN :
         dc' = IF timed_out
               THEN [dc EXCEPT !.pc = "meeting", !.task = "cancelled",
                               !.log = @ \o <<"wait", "cancel">>]
               ELSE [dc EXCEPT !.pc = "meeting", !.task = "done",
                               !.log = Append(@, "wait")]
    /\ UNCHANGED dcRest

\* "Auto-save meeting recording if still active": skipped for an inactive
\* meeting and for an empty buffer; _save_meeting_audio writes the file or
\* raises; with a row id the update of the row is awaited
DcMeetingSave ==
    /\ dc.pc = "meeting"
    /\ IF dc.meeting_active /\ dc.buffer > 0
       THEN \E written \in BOOLEAN :
              dc' = IF ~written
                    THEN [dc EXCEPT !.pc = "history", !.meeting_active = FALSE,
                                    !.log = Append(@, "meeting")]
                    ELSE IF dc.db_id
                    THEN [dc EXCEPT !.pc = "meeting_update", !.audio = TRUE,
                                    !.meeting_active = FALSE,
                                    !.log = Append(@, "meeting")]
                    ELSE [dc EXCEPT !.pc = "history", !.audio = TRUE,
                                    !.meeting_active = FALSE,
                                    !.log = Append(@, "meeting")]
       ELSE dc' = [dc EXCEPT !.pc = "history"]
    /\ UNCHANGED dcRest

\* _update_meeting_record returns or raises (the exception is logged)
DcMeetingUpdated ==
    /\ dc.pc = "meeting_update"
    /\ \E ok \in BOOLEAN :
         dc' = [dc EXCEPT !.pc = "history",
                          !.row = IF ok THEN "ended" ELSE @]
    /\ UNCHANGED dcRest

\* "Save conversation history to DB": the device row gets the history, or
\* the store raises (logged); then reset_conversation and the handler returns
DcHistorySaved ==
    /\ dc.pc = "history"
    /\ \E ok \in BOOLEAN :
         dc' = [dc EXCEPT !.pc = "ended", !.conv = 0,
                          !.stored = IF ok THEN dc.conv ELSE @,
                          !.log = Append(@, "history")]
    /\ UNCHANGED dcRest

NextDisconnect ==
    \/ DcSessionStep
    \/ DcLoopEnds
    \/ DcWaitEnds
    \/ DcMeetingSave
    \/ DcMeetingUpdated
    \/ DcHistorySaved

SpecDisconnect == Init /\ [][NextDisconnect]_vars

\* ------------------------------------------------------------ music source
\* pipeline._stream_music as the consumer of the async generator that
\* music.search_and_stream returns, with the exits of the loop and what each
\* does to the generator.
msRest == <<base, rm, rt, tl, vl, hs, dc, rd, ut>>

\* _stream_music, finally: the flags are cleared and music_end is sent on an
\* open connection
MsFinally(m) ==
    IF m.closed THEN [m EXCEPT !.pc = "returned"]
    ELSE [m EXCEPT !.pc = "end_send"]

\* _stream_music after the loop: the last partial batch
MsAfterLoop(m) ==
    IF m.batch > 0 /\ ~m.abort /\ ~m.closed THEN [m EXCEPT !.pc = "final_send"]
    ELSE MsFinally(m)

\* batch.append(opus_packet); a full batch is written, else the loop asks
\* the generator for the next frame
MsAppend(m) ==
    IF m.batch + 1 >= BATCH_SIZE
    THEN [m EXCEPT !.batch = @ + 1, !.pc = "send"]
    ELSE [m EXCEPT !.batch = @ + 1, !.pc = "anext", !.gen = "running"]

\* _stream_music(ws, session, title, generator) up to the first __anext__;
\* music_start is sent first
MsCall ==
    /\ ms.pc = "idle"
    /\ \E n \in 0..MaxSourceFrames :
         ms' = [ms EXCEPT !.pc = "anext", !.gen = "running", !.left = n,
                          !.abort = FALSE, !.gate = TRUE]
    /\ UNCHANGED msRest

\* The generator yields a frame and is suspended at the yield; the loop body
\* tests the stop flag and the connection (break), then the pause gate
MsYield ==
    /\ ms.pc = "anext" /\ ms.left > 0
    /\ LET m == [ms EXCEPT !.gen = "suspended", !.left = @ - 1]
       IN ms' = IF m.abort \/ m.closed THEN MsAfterLoop(m)
                ELSE IF ~m.gate THEN [m EXCEPT !.pc = "gate_wait"]
                ELSE MsAppend(m)
    /\ UNCHANGED msRest

\* ffmpeg's output ends: the generator runs its finally block and raises
\* StopAsyncIteration; the loop ends
MsExhausted ==
    /\ ms.pc = "anext" /\ ms.left = 0
    /\ ms' = MsAfterLoop([ms EXCEPT !.gen = "closed"])
    /\ UNCHANGED msRest

\* The read or the encoder raises inside the generator: its finally block
\* runs and the exception reaches "except Exception" of _stream_music
MsSourceRaises ==
    /\ ms.pc = "anext"
    /\ ms' = MsFinally([ms EXCEPT !.gen = "closed"])
    /\ UNCHANGED msRest

\* The pause gate opens: break when stopped or closed, else music_resume
\* and the frame is appended
MsGateOpens ==
    /\ ms.pc = "gate_wait" /\ ms.gate
    /\ ms' = IF ms.abort \/ ms.closed THEN MsAfterLoop(ms) ELSE MsAppend(ms)
    /\ UNCHANGED msRest

\* ws_send_safe returns for a full batch; a failed write breaks the loop
MsSendReturns ==
    /\ ms.pc = "send"
    /\ \E ok \in BOOLEAN :
         /\ ms.closed => ~ok
         /\ ms' = IF ok THEN [ms EXCEPT !.batch = 0, !.pc = "anext",
                                        !.gen = "running"]
                  ELSE MsAfterLoop(ms)
    /\ UNCHANGED msRest

\* The last partial batch has been written (or the write failed)
MsFinalSent ==
    /\ ms.pc = "final_send"
    /\ ms' = MsFinally(ms)
    /\ UNCHANGED msRest

\* music_end has been sent; _stream_music returns
MsEndSent ==
    /\ ms.pc = "end_send"
    /\ ms' = [ms EXCEPT !.pc = "returned"]
    /\ UNCHANGED msRest

\* The task is cancelled at an await of the try block.  Inside __anext__ the
\* CancelledError is raised in the generator, whose finally block runs;
\* at every other await the generator stays suspended at its yield.
MsCancelled ==
    /\ ms.pc \in {"anext", "gate_wait", "send", "final_send"}
    /\ ms' = MsFinally([ms EXCEPT !.gen = IF ms.pc = "anext" THEN "closed"
                                          ELSE @])
    /\ UNCHANGED msRest

\* music_ctrl and the player tools, and the disconnect, while the stream runs
MsControl ==
    /\ ms.pc \notin {"idle", "returned"}
    /\ \/ ms' = [ms EXCEPT !.abort = TRUE, !.gate = TRUE]
       \/ /\ ~ms.abort
          /\ ms' = [ms EXCEPT !.gate = ~@]
       \/ /\ ~ms.closed
          /\ ms' = [ms EXCEPT !.closed = TRUE, !.abort = TRUE, !.gate = TRUE]
    /\ ms' # ms
    /\ UNCHANGED msRest

\* After the return nothing refers to the generator any longer: the event
\* loop's finalizer hook schedules aclose() for a generator that is still
\* suspended, and its finally block runs then
MsCollected ==
    /\ ms.pc = "returned" /\ ms.gen = "suspended"
    /\ ms' = [ms EXCEPT !.gen = "closed"]
    /\ UNCHANGED msRest

NextSource ==
    \/ MsCall
    \/ MsYield
    \/ MsExhausted
    \/ MsSourceRaises
    \/ MsGateOpens
    \/ MsSendReturns
    \/ MsFinalSent
    \/ MsEndSent
    \/ MsCancelled
    \/ MsControl
    \/ MsCollected

SpecSource == Init /\ [][NextSource]_vars

\* ------------------------------------------------------------ TTS rounds
\* _process_and_speak from "6. Execute tool" to its return, with
\* _send_tts_round, at the grain of the tts_start and tts_end messages.
\* device_round is the device's side: the last of these two messages written
\* to it is tts_start.  Writes reach the device in the order in which
\* ws.send was called, so a message counts when its write begins, on an open
\* connection.

rdRest == <<base, rm, rt, tl, vl, hs, dc, ms, ut>>

\* The awaits that are the write of a tts_start, and of a tts_end
StartSends == {"hint_start_send", "round_start_send"}
EndSends == {"abort_end_send", "last_end_send", "ask_end_send", "round_end_send"}

\* The run goes on to its next await; when that is the write of a tts_start
\* or tts_end on an open connection, the device is sent the message
RdGoto(r, loc) ==
    [r EXCEPT !.pc = loc,
              !.device_round = IF ws_closed THEN @
                               ELSE IF loc \in StartSends THEN TRUE
                               ELSE IF loc \in EndSends THEN FALSE
                               ELSE @]

\* The test after the hint: an aborted session or a closed connection ends
\* the run, after a tts_end when the hint opened a round
RdAfterHint(r) ==
    IF tts_abort \/ ws_closed
    THEN RdGoto(r, IF r.tts_session_open THEN "abort_end_send" ELSE "ended")
    ELSE RdGoto(r, "tool_exec")

\* tts_session_open = False; with a hint, synthesize_tts is awaited
RdEnter(reply_hint) ==
    /\ rd.pc = "idle"
    /\ rd' = IF reply_hint THEN RdGoto(rd, "hint_synth") ELSE RdAfterHint(rd)
    /\ UNCHANGED rdRest

\* synthesize_tts(reply_hint) returns, and tts_start is sent, or raises (the
\* except logs a warning)
RdHintSynth(raises) ==
    /\ rd.pc = "hint_synth"
    /\ rd' = IF raises THEN RdAfterHint(rd) ELSE RdGoto(rd, "hint_start_send")
    /\ UNCHANGED rdRest

\* The write of the hint's tts_start returns
RdHintStartSent ==
    /\ rd.pc = "hint_start_send"
    /\ rd' = IF ~ws_closed
             THEN RdGoto([rd EXCEPT !.tts_session_open = TRUE], "hint_stream")
             ELSE RdAfterHint(rd)
    /\ UNCHANGED rdRest

\* _stream_batched(hint_packets) returns
RdHintStreamed ==
    /\ rd.pc = "hint_stream"
    /\ rd' = RdAfterHint(rd)
    /\ UNCHANGED rdRest

\* execute_tool returns (a failed handler gives an "error" result); the
\* branch of the result type runs to its first await
RdToolReturns(type) ==
    /\ rd.pc = "tool_exec"
    /\ rd' = RdGoto([rd EXCEPT !.result = type],
                 CASE type \in {"tts", "error"} -> "res_synth"
                   [] type = "ask_user" ->
                        IF rd.tts_session_open THEN "ask_end_send"
                        ELSE "ask_synth"
                   [] OTHER ->
                        IF rd.tts_session_open THEN "last_end_send"
                        ELSE "ended")
    /\ UNCHANGED rdRest

\* The write returns of the tts_end that closes the hint's round before
\* music, for a silent result, after a failed synthesis, after an abort, or
\* after the result was streamed
RdLastEndSent ==
    /\ rd.pc \in {"last_end_send", "abort_end_send"}
    /\ rd' = RdGoto([rd EXCEPT !.tts_session_open = FALSE], "ended")
    /\ UNCHANGED rdRest

\* "ask_user": the write returns of the tts_end that closes the hint's round
\* before the question
RdAskEndSent ==
    /\ rd.pc = "ask_end_send"
    /\ rd' = RdGoto([rd EXCEPT !.tts_session_open = FALSE], "ask_synth")
    /\ UNCHANGED rdRest

\* synthesize_tts(result.text) returns or raises, for a "tts" or "error"
\* result: in the hint's round the frames are streamed, else _send_tts_round
\* sends tts_start
RdResultSynth(raises) ==
    /\ rd.pc = "res_synth"
    /\ rd' = IF raises
             THEN RdGoto(rd, IF rd.tts_session_open THEN "last_end_send"
                             ELSE "ended")
             ELSE RdGoto(rd, IF rd.tts_session_open THEN "res_stream"
                             ELSE "round_start_send")
    /\ UNCHANGED rdRest

\* "ask_user": synthesize_tts returns or raises (except: pass)
RdAskSynth(raises) ==
    /\ rd.pc = "ask_synth"
    /\ rd' = RdGoto(rd, IF raises THEN "ended" ELSE "round_start_send")
    /\ UNCHANGED rdRest

\* _stream_batched(result_packets) in the hint's round returns; tts_end
\* follows whatever the flag
RdResultStreamed ==
    /\ rd.pc = "res_stream"
    /\ rd' = RdGoto(rd, "last_end_send")
    /\ UNCHANGED rdRest

\* _send_tts_round: the write of tts_start returns; a failed write returns 0
RdRoundStartSent ==
    /\ rd.pc = "round_start_send"
    /\ rd' = RdGoto(rd, IF ~ws_closed THEN "round_stream" ELSE "ended")
    /\ UNCHANGED rdRest

\* _send_tts_round: _stream_batched returns; tts_end is sent only when the
\* session is not aborted
RdRoundStreamed ==
    /\ rd.pc = "round_stream"
    /\ rd' = RdGoto(rd, IF ~tts_abort THEN "round_end_send" ELSE "ended")
    /\ UNCHANGED rdRest

\* _send_tts_round: the write of tts_end returns
RdRoundEndSent ==
    /\ rd.pc = "round_end_send"
    /\ rd' = RdGoto(rd, "ended")
    /\ UNCHANGED rdRest

\* handle_text_message, "abort" with no music playing: the flag is set and
\* tts_end (reason abort) is written
RdAbort ==
    /\ ~ws_closed
    /\ ~music_playing
    /\ tts_abort' = TRUE
    /\ rd' = [rd EXCEPT !.device_round = FALSE]
    /\ UNCHANGED <<opus_packets, listening, processing, music_playing,
                   music_paused, music_abort, music_pause_event, ws_closed,
                   run, old, handler_log, stop_abort_seen, resume_unacked,
                   ex, tn, sb, cn, mt, rm, rt, tl, vl, hs, dc, ms, ut>>

NextRound ==
    \/ \E reply_hint \in BOOLEAN : RdEnter(reply_hint)
    \/ \E raises \in BOOLEAN : RdHintSynth(raises)
    \/ RdHintStartSent
    \/ RdHintStreamed
    \/ \E type \in ResultTypes : RdToolReturns(type)
    \/ RdLastEndSent
    \/ RdAskEndSent
    \/ \E raises \in BOOLEAN : RdResultSynth(raises)
    \/ \E raises \in BOOLEAN : RdAskSynth(raises)
    \/ RdResultStreamed
    \/ RdRoundStartSent
    \/ RdRoundStreamed
    \/ RdRoundEndSent
    \/ RdAbort
    \/ ListenDuringTool
    \/ CloseDuringTool

SpecRound == Init /\ [][NextRound]_vars

\* ------------------------------------------------------ utterance buffer
\* The handlers that fill and hand over session.opus_packets, and
\* run_pipeline with _decode_and_asr, which reads it.  What follows the
\* asr_text message is one step.

utRest == <<music_playing, music_paused, music_abort, music_pause_event, run,
            old, handler_log, stop_abort_seen, resume_unacked, ex, tn, sb, cn,
            mt, rm, rt, tl, vl, hs, dc, ms, rd>>

\* handle_text_message: "audio_start", and "listen" with state "start"
UtAudioStart ==
    /\ ~ws_closed
    /\ opus_packets' = <<>>
    /\ listening' = TRUE
    /\ tts_abort' = FALSE
    /\ ut' = [ut EXCEPT !.decodes = 0]
    /\ UNCHANGED <<processing, ws_closed, utRest>>

\* handle_client: a binary message is appended while listening
UtBinaryFrame ==
    /\ ~ws_closed
    /\ listening
    /\ Len(opus_packets) < MaxPackets
    /\ opus_packets' = Append(opus_packets, "frame")
    /\ UNCHANGED <<listening, tts_abort, processing, ws_closed, ut, utRest>>

\* handle_text_message: "audio_end", and "listen" with state "stop", with
\* _launch_pipeline: dropped while processing, else the task that is not done
\* is cancelled (a task that has not started never runs; one suspended on the
\* empty-audio exit unwinds later) and a new task is created
UtAudioEnd ==
    /\ ~ws_closed
    /\ listening' = FALSE
    /\ IF processing THEN UNCHANGED ut
       ELSE /\ ut.decodes < MaxDecodes
            /\ ~ut.superseded
            /\ ut' = [ut EXCEPT !.pc = "created",
                                !.superseded = (ut.pc = "empty_send")]
    /\ UNCHANGED <<opus_packets, tts_abort, processing, ws_closed, utRest>>

\* handle_text_message: "abort" with no music playing
UtAbort ==
    /\ ~ws_closed
    /\ ~music_playing
    /\ ~tts_abort
    /\ tts_abort' = TRUE
    /\ UNCHANGED <<opus_packets, listening, processing, ws_closed, ut, utRest>>

\* The connection closes
UtClose ==
    /\ ~ws_closed
    /\ ws_closed' = TRUE
    /\ UNCHANGED <<opus_packets, listening, tts_abort, processing, ut, utRest>>

\* run_pipeline up to its first await: the empty-audio exit; else processing =
\* True and _decode_and_asr decodes session.opus_packets (a failed decode sends
\* an error), returns on an aborted session or closed connection, or calls the
\* transcription
UtStartRun ==
    /\ ut.pc = "created"
    /\ IF opus_packets = <<>>
       THEN /\ ut' = [ut EXCEPT !.pc = "empty_send"]
            /\ UNCHANGED processing
       ELSE /\ processing' = TRUE
            /\ \E decoded \in BOOLEAN :
                 ut' = IF ~decoded THEN [ut EXCEPT !.pc = "err_send"]
                       ELSE IF tts_abort \/ ws_closed
                       THEN [ut EXCEPT !.pc = "finalize"]
                       ELSE [ut EXCEPT !.decodes = @ + 1, !.pc = "asr"]
    /\ UNCHANGED <<opus_packets, listening, tts_abort, ws_closed, utRest>>

\* run_pipeline: the write of the "empty audio" error returns and the run
\* returns
UtEmptySent ==
    /\ ut.pc = "empty_send"
    /\ ut' = [ut EXCEPT !.pc = "none"]
    /\ UNCHANGED <<opus_packets, listening, tts_abort, processing, ws_closed, utRest>>

\* _pipeline_wrapper of the cancelled task on the empty-audio exit:
\* CancelledError is caught and processing cleared
UtSupersededUnwinds ==
    /\ ut.superseded
    /\ ut' = [ut EXCEPT !.superseded = FALSE]
    /\ processing' = FALSE
    /\ UNCHANGED <<opus_packets, listening, tts_abort, ws_closed, utRest>>

\* _decode_and_asr: transcribe_pcm returns, and asr_text is sent, or raises,
\* and an error is sent
UtTranscribed(raises) ==
    /\ ut.pc = "asr"
    /\ ut' = [ut EXCEPT !.pc = IF raises THEN "err_send" ELSE "asr_text_send"]
    /\ UNCHANGED <<opus_packets, listening, tts_abort, processing, ws_closed, utRest>>

\* _decode_and_asr returned None after its error message, or
\* _process_and_speak returned: the inner finally of run_pipeline awaits the
\* keepalive task
UtPhasesOver ==
    /\ ut.pc \in {"err_send", "asr_text_send"}
    /\ ut' = [ut EXCEPT !.pc = "finalize"]
    /\ UNCHANGED <<opus_packets, listening, tts_abort, processing, ws_closed, utRest>>

\* run_pipeline, the outer finally: processing = False
UtRunEnds ==
    /\ ut.pc = "finalize"
    /\ ut' = [ut EXCEPT !.pc = "none"]
    /\ processing' = FALSE
    /\ UNCHANGED <<opus_packets, listening, tts_abort, ws_closed, utRest>>

NextUtterance ==
    \/ UtAudioStart
    \/ UtBinaryFrame
    \/ UtAudioEnd
    \/ UtAbort
    \/ UtClose
    \/ UtStartRun
    \/ UtEmptySent
    \/ UtSupersededUnwinds
    \/ \E raises \in BOOLEAN : UtTranscribed(raises)
    \/ UtPhasesOver
    \/ UtRunEnds

SpecUtterance == Init /\ [][NextUtterance]_vars

\* ================================================================== claims

\* Positions of run_pipeline between "session.processing = True" and its
\* inner finally: the task is executing a phase (decode, ASR, resolution,
\* tool, TTS or music).
PhasePcs ==
    {"err_send", "asr", "asr_text_send", "llm", "expr_send", "chat_synth",
     "chat_err_send", "chat_round", "hint_synth", "hint_start_send",
     "hint_stream", "abort_end_send", "tool_exec", "pre_music_end_send",
     "res_synth", "res_fail_end_send", "res_stream", "music_start_send",
     "music_end_send"} \cup MusicLoopPcs

\* Pipeline tasks that execute a phase and have no cancellation pending
ExecutingRuns ==
    (IF run.pc \in PhasePcs /\ ~run.cancel THEN 1 ELSE 0) + old["music_end_send"]

\* A frame batch is handed to the socket by this step
StartsWrite == run'.pc \in WritePcs /\ run'.pc # run.pc

\* C1: at most one pipeline run is in flight per session: two runs launched
\* by end-of-utterance events never execute their phases concurrently.
C1_AtMostOneRunExecuting == ExecutingRuns <= 1

\* C2 (as stated): an end-of-utterance event received at any time between
\* the launch of a run and its completion starts no second run and neither
\* cancels nor replaces the run in flight.
C2_EndUtteranceDroppedWhileRunUnfinished ==
    [][EndUtterance /\ Alive(run) => run' = run /\ old' = old]_vars

\* C2 (amended): an end-of-utterance event received while session.processing
\* is set is dropped: no second run, no cancel, no replacement.  Received
\* while processing is clear it launches a run; a run launched before that
\* has not started yet is replaced without ever running, and one that is on
\* the empty-audio exit is cancelled and replaced.
C2_EndUtteranceDroppedWhileProcessing ==
    [][EndUtterance =>
        IF processing
        THEN run' = run /\ old' = old
        ELSE /\ run'.pc = "created"
             /\ run.pc = "created" => old' = old
             /\ run.pc = "empty_send" =>
                   old'["empty_send"] = old["empty_send"] + 1]_vars

\* An end-of-utterance event was dropped while the run in flight executes
C2_Witness ==
    handler_log = "already_processing" /\ processing /\ run.pc \in PhasePcs

\* C3: an abort with an explicit stop reason received while music plays is
\* a full stop: once it has been handled the consumer hands no further
\* batch to the socket.
C3_ExplicitStopAbortStopsMusic ==
    [][stop_abort_seen => ~StartsWrite]_vars

\* C4: a wake-word abort received while music plays pauses the stream:
\* music_paused is true, music_playing is still true, the gate is closed,
\* and the message sets neither tts_abort nor music_abort.
C4_WakeWordAbortPauses ==
    [][HandleAbort("wake_word_detected") /\ music_playing =>
        /\ music_paused' /\ music_playing' /\ ~music_pause_event'
        /\ tts_abort' = tts_abort
        /\ music_abort' = music_abort]_vars

\* A wake-word abort has paused a playing stream
C4_Witness ==
    /\ handler_log = "paused_for_voice"
    /\ music_playing /\ music_paused /\ ~music_pause_event
    /\ ~tts_abort /\ ~music_abort

\* C5: a stop utterance spoken while music plays is not ignored: its
\* end-of-utterance event launches the run that resolves it to player.stop.
C5_StopUtteranceNotIgnored ==
    [][EndUtterance /\ music_playing /\ opus_packets # <<>> =>
        handler_log' # "already_processing"]_vars

\* C6: a voice interaction during music is processed by a pipeline run
\* while the stream is paused and still playing.
C6_UtteranceProcessedWhilePaused ==
    [][EndUtterance /\ music_playing /\ music_paused /\ opus_packets # <<>> =>
        run'.pc = "created" /\ music_playing']_vars

\* C7: the consumer hands no batch to the socket while the stream is paused,
\* and none after a resume of the paused stream before it has answered that
\* resume with music_resume, wherever in its loop it was.
C7_NoFrameWhilePausedAndResumeAnnounced ==
    [][StartsWrite => ~music_paused /\ ~resume_unacked]_vars

\* C8: a stop that finds the consumer blocked on the pause gate unblocks it,
\* and the consumer's next step leaves the loop: it hands no further batch to
\* the socket and does not send music_resume.
C8_StopUnblocksBlockedConsumer ==
    /\ [](run.stop_blocked => run.pc = "gate_wait" /\ run.woken)
    /\ [][run.stop_blocked /\ run' # run =>
            run'.pc \notin MusicLoopPcs \/ run'.cancel]_vars

\* A stop has found the consumer blocked on the pause gate
C8_Witness == run.stop_blocked /\ run.pc = "gate_wait" /\ ~run.cancel

\* C9 (as stated): music_playing and music_paused are never both true.
C9_NeverPlayingAndPaused == ~(music_playing /\ music_paused)

\* C9 (amended): pausing a playing stream leaves music_playing true and sets
\* music_paused, so paused is a sub-state of playing; the state "paused and
\* not playing" is entered only by a music_ctrl pause received while no
\* stream plays, and the end of a stream clears both flags.
C9_PausedIsSubStateOfPlaying ==
    /\ [][(HandleAbort("wake_word_detected") \/ MusicCtrl("pause"))
            /\ music_playing => music_playing' /\ music_paused']_vars
    /\ [][music_paused' /\ ~music_playing' =>
            \/ music_paused /\ ~music_playing
            \/ MusicCtrl("pause") /\ ~music_playing]_vars
    /\ [][music_playing /\ ~music_playing' => ~music_paused']_vars

\* A playing stream is paused: both flags are true
C9_Witness == music_playing /\ music_paused /\ run.pc \in MusicLoopPcs

\* C10: for every registered tool, long-running or not, an exception raised
\* by its handler never escapes execute_tool: the call returns an error
\* result.
C10_HandlerExceptionNeverEscapes ==
    /\ ex.pc # "escaped"
    /\ ex.pc = "returned" /\ ex.handler \in {"raised", "raised_timeout"} =>
          ex.result = "error"

\* The executor returned ask_user from its own validation
AskedForParam ==
    ex.pc = "returned" /\ ex.result = "ask_user" /\ ex.handler = "none"

\* The declared parameters of the tool of the call
ExParams == Registry[ex.tool].params

\* C11 (as stated): a call missing a required parameter returns ask_user for
\* the first missing one without invoking the handler, and the following call
\* of the same tool with that parameter filled in succeeds: it is not
\* answered by another ask_user.
C11_FollowUpCallSucceeds ==
    /\ AskedForParam =>
          \E i \in 1..Len(ExParams) :
             /\ ExParams[i].name = ex.missing
             /\ ExParams[i].required /\ ex.missing \notin ex.args
             /\ \A j \in 1..(i - 1) :
                   ExParams[j].required => ExParams[j].name \in ex.args
    /\ ex.filled # "none" => ~AskedForParam

\* C11 (amended): a call missing a required parameter returns ask_user for
\* the first missing one in declaration order, with the tool name and the
\* arguments as given, without invoking the handler; the following call with
\* that parameter filled in invokes the handler if no other required
\* parameter is missing, and otherwise returns ask_user for the next missing
\* one, which is declared after the one just filled.
C11_AskUserFirstMissingThenNext ==
    /\ AskedForParam =>
          \E i \in 1..Len(ExParams) :
             /\ ExParams[i].name = ex.missing
             /\ ExParams[i].required /\ ex.missing \notin ex.args
             /\ \A j \in 1..(i - 1) :
                   ExParams[j].required => ExParams[j].name \in ex.args
    /\ ex.filled # "none" =>
          /\ ex.filled \in ex.args
          /\ IF MissingAt(ExParams, ex.args) = {}
             THEN ex.handler # "none"
             ELSE /\ AskedForParam
                  /\ \E i, k \in 1..Len(ExParams) :
                        /\ ExParams[i].name = ex.filled
                        /\ ExParams[k].name = ex.missing
                        /\ i < k

\* A follow-up call with the parameter filled in has invoked the handler
C11_Witness ==
    ex.filled # "none" /\ ex.handler = "running" /\ ex.tool = "reminder.set"

\* C12: for a tool name that is not in the registry execute_tool returns an
\* error result, invokes no handler, leaves the session unchanged and never
\* throws.
C12_UnknownToolIsErrorResult ==
    /\ [](ex.pc # "idle" /\ ex.tool \notin DOMAIN Registry =>
            ex.pc = "returned" /\ ex.result = "error" /\ ex.handler = "none")
    /\ [][ex.pc = "idle" /\ ex'.pc # "idle" /\ ex'.tool \notin DOMAIN Registry =>
            UNCHANGED <<sessionRest, tts_abort, ws_closed>>]_vars

\* A call naming an unregistered tool has returned
C12_Witness ==
    ex.pc = "returned" /\ ex.tool = "nosuch.tool" /\ ex.result = "error"

\* C13: when no router rule matches and the planner names a tool that is not
\* registered, the run calls no handler and raises no unhandled exception:
\* unless the session aborts or the synthesis or delivery fails, it ends
\* having delivered a TTS round, for every shape of the planner's arguments.
C13_UnknownPlannedToolIsSpoken ==
    tn.pc = "ended" /\ tn.unknown /\ ~tn.aborted /\ ~tn.failed =>
        tn.spoke /\ ~tn.raised /\ ex.handler = "none"

\* C14: when pending_tool_call is set and a non-empty transcript reaches the
\* resolution, the transcript fills the pending call's missing parameter,
\* that tool is called with the partial arguments, neither the router nor
\* the planner is called, and pending_tool_call is empty when the tool is
\* called.
C14_PendingCallResumed ==
    [][tn.pc = "asr_text_send" /\ tn.text # "" /\ ~Aborted
         /\ tn.pending # NoPending /\ tn' # tn =>
            /\ tn'.pc = "tool"
            /\ tn'.pending = NoPending
            /\ ~tn'.routed /\ ~tn'.planned
            /\ ex'.tool = tn.pending.tool
            /\ ex'.args = tn.pending.args \cup {tn.pending.missing}
            /\ ex'.filled = tn.pending.missing]_vars

\* The handler of a resumed pending call is running
C14_Witness ==
    /\ tn.pc = "tool" /\ tn.filled # "none" /\ tn.pending = NoPending
    /\ ex.handler = "running" /\ ex.filled = tn.filled

\* C15: once the run of an utterance has ended, however it ended, the stored
\* pending call is empty unless that run itself stored it.
C15_PendingConsumedByNextRun ==
    tn.pc = "ended" /\ tn.pending # NoPending => tn.stored


\* The device's reading of one message: records of a two-byte big-endian
\* length followed by that many bytes; a record that runs past the end of the
\* message ends the reading
RECURSIVE Decode(_)
Decode(blob) ==
    IF Len(blob) < 2 THEN <<>>
    ELSE LET n == blob[1] * 256 + blob[2]
         IN IF 2 + n > Len(blob) THEN <<>>
            ELSE <<SubSeq(blob, 3, 2 + n)>> \o Decode(SubSeq(blob, 3 + n, Len(blob)))

\* The frames of all the messages written, in the order written
RECURSIVE WireFrames(_)
WireFrames(wire) ==
    IF wire = <<>> THEN <<>> ELSE Decode(Head(wire)) \o WireFrames(Tail(wire))

\* C16: for every frame list the scheduler writes the frames in the order
\* submitted, in consecutive batches of exactly BATCH_SIZE frames except
\* possibly the last, every batch one message of [2-byte big-endian length]
\* [frame bytes] records; and when the stream is not aborted and no write
\* fails, the frames of all the messages together are the input list.
C16_BatchesCarryInputInOrder ==
    /\ \A k \in 1..Len(sb.wire) :
         /\ Decode(sb.wire[k]) = BatchAt(sb.input, k - 1)
         /\ Len(Decode(sb.wire[k])) = BATCH_SIZE \/ k = NumBatches(sb.input)
    /\ sb.pc = "done" /\ ~sb.stopped => WireFrames(sb.wire) = sb.input

\* A stream of three or more batches, the last one partial, ran to its end
C16_Witness ==
    /\ sb.pc = "done" /\ ~sb.stopped
    /\ Len(sb.wire) >= 3
    /\ Len(sb.input) % BATCH_SIZE # 0


\* The pre-buffer and the batch period of the stream under way
PreBuffer == IF sb.mode = "music" THEN MUSIC_PRE_BUFFER_BATCHES ELSE PRE_BUFFER_BATCHES
Period == IF sb.mode = "music" THEN MUSIC_BATCH_PERIOD ELSE BATCH_PERIOD

\* No sleep came before any of the first P batches written
PreBufferUnpaced == \A k \in 1..Len(sb.gaps) : k <= PreBuffer => sb.gaps[k] = 0

\* C17 as stated: the first P batches are sent with no sleep between them,
\* and a stream that is not aborted takes at least (number of batches - P)
\* batch periods.
C17_DeliveryTimeAtLeastPacedPeriods ==
    /\ PreBufferUnpaced
    /\ sb.pc = "done" /\ ~sb.stopped =>
           sb.now >= (NumBatches(sb.input) - PreBuffer) * Period

\* C17 amended: the same for a stream of synthesized speech and for a music
\* stream that was never resumed from a pause.  (A resume restarts the
\* pre-buffer of a music stream: pacing_start = None, batch_count = 0.)
C17_UnresumedDeliveryTimeAtLeastPacedPeriods ==
    /\ PreBufferUnpaced
    /\ sb.pc = "done" /\ ~sb.stopped /\ ~sb.resumed =>
           sb.now >= (NumBatches(sb.input) - PreBuffer) * Period

\* A stream of four batches ran to its end with every write taking no time:
\* two batches back to back, the paced ones a period apart
C17_Witness ==
    /\ sb.pc = "done" /\ ~sb.stopped /\ ~sb.resumed
    /\ Len(sb.wire) = 4
    /\ sb.gaps = <<0, 0, Period, Period>>
    /\ sb.now = 2 * Period


\* C18: _stream_batched hands a batch to the socket only when the abort flag
\* is clear and the connection open at that moment; once it has seen the flag
\* or the closed connection, or a write has failed, it has ended and writes
\* no later batch; and the count it returns is the number of frames in the
\* batches whose write succeeded.
C18_AbortCheckedBeforeEveryBatch ==
    /\ [][sb'.mode = "tts" /\ sb'.pc = "send" /\ sb' # sb =>
              ~tts_abort /\ ~ws_closed]_vars
    /\ [](sb.mode = "tts" /\ sb.stopped => sb.pc = "done")
    /\ [](sb.mode = "tts" /\ sb.pc = "done" =>
              sb.sent = Len(WireFrames(sb.wire)))

\* A delivery was cut short by an abort after some batches had been written
C18_Witness ==
    /\ sb.mode = "tts" /\ sb.pc = "done" /\ sb.stopped
    /\ tts_abort /\ ~ws_closed
    /\ sb.sent > 0 /\ sb.sent < Len(sb.input)
    /\ sb.sent = Len(WireFrames(sb.wire))


\* The connection of the device that registered last
LatestConn == cn.registered[Len(cn.registered)]

\* C19: while the connection of a device that was accepted last is still
\* open, the lookup for the device returns that connection.
C19_LookupReturnsLatestOpen ==
    cn.registered # <<>> /\ cn.st[LatestConn] = "open" /\ ~cn.closed[LatestConn] =>
        GetActiveConnection = LatestConn


\* C20: after the disconnect of a session whose meeting recording was active,
\* the file of the meeting holds the whole buffer, and the row of the meeting
\* is ended with the duration of the buffered audio, whatever the amount of
\* audio.
C20_DisconnectFinalizesRecording ==
    ~mt.connected /\ mt.was_active =>
        /\ mt.buffer # <<>> =>
             [session_id |-> mt.session_id, pcm |-> mt.buffer] \in mt.files
        /\ \A k \in 1..Len(mt.records) :
             mt.records[k].session_id = mt.session_id =>
                 /\ mt.records[k].status = "ended"
                 /\ mt.records[k].duration_s = DurationS(mt.buffer)


\* C21: a reminder is marked delivered only after a push to an open, idle
\* session that wrote the frames of its message; it is marked failed only
\* when overdue by more than the grace window; and once marked delivered or
\* failed it is not pushed again.
C21_DeliveredOnlyAfterSuccessfulPush ==
    /\ [](\A r \in 1..Len(rm.rem) :
            /\ rm.rem[r].delivered = 1 =>
                   rm.rem[r].pushed /\ rm.rem[r].complete
            /\ rm.rem[r].delivered = 2 =>
                   rm.now - rm.rem[r].remind_at > GraceTicks)
    /\ [][rm.pc = "start_send" /\ rm'.pc \in {"stream", "end_send"} =>
              rm.rem[rm.due[rm.k]].delivered = 0]_vars


\* The rules whose pattern matches the text of the call, by their place in
\* the list, and those among them whose arguments hold no empty "query"
MatchingRules == {k \in 1..Len(Rules) : RuleMatches(Rules[k], Strip(rt.text))}
UsableRules ==
    {k \in MatchingRules :
        LET args == RuleArgs(Rules[k], Strip(rt.text))
        IN ~(args.has_query /\ args.query = <<>>)}

\* The result is the match of the first rule of a set of rules, no match
\* when the set is empty
ResultIsFirstOf(rules) ==
    IF rules = {} THEN rt.result = NoRouteMatch
    ELSE LET k == CHOOSE j \in rules : \A i \in rules : j <= i
         IN /\ rt.result.rule = k
            /\ rt.result.tool = RuleTool(Rules[k])
            /\ rt.result.args = RuleArgs(Rules[k], Strip(rt.text))

\* C22 as stated: route returns the match of the first rule, in list order,
\* whose pattern matches the text.
C22_FirstMatchingRuleWins == rt.called => ResultIsFirstOf(MatchingRules)

\* C22 amended: route returns the match of the first rule, in list order,
\* whose pattern matches and whose arguments hold no empty "query"; among
\* such rules the earlier one's tool and arguments are returned.
C22_FirstUsableRuleWins == rt.called => ResultIsFirstOf(UsableRules)

\* "play music" matches the rule with a query and the generic music rule;
\* the earlier one is returned with the query it extracted
C22_Witness ==
    /\ rt.called
    /\ Cardinality(UsableRules) >= 2
    /\ rt.result.rule = 1
    /\ rt.result.tool = "youtube.play"
    /\ rt.result.args.query = <<"music">>

\* C23: a rule that matches with an empty "query" does not end the routing:
\* the result is that of the rules after it, no match only when none of
\* them gives one, and never a match whose "query" is empty.
C23_EmptyQueryFallsThrough ==
    rt.called =>
        /\ rt.result # NoRouteMatch =>
               ~(rt.result.args.has_query /\ rt.result.args.query = <<>>)
        /\ \A k \in MatchingRules \ UsableRules :
               (\A i \in MatchingRules : k <= i) =>
                   rt.result = RouteFrom(Strip(rt.text), k + 1)
        /\ rt.result = NoRouteMatch => UsableRules = {}

\* "play ." matched the first rule with a query of punctuation only; no
\* later rule matches and route returned no match
C23_Witness ==
    /\ rt.called
    /\ rt.text = <<"play", " ", ".">>
    /\ MatchingRules = {1}
    /\ rt.result = NoRouteMatch

\* The credentials of connection c are missing or invalid
BadCred(c) == cn.cred[c] \in {"missing", "invalid"}

\* C24: a connection whose device id or token is missing or invalid is closed
\* by the server with code 4401, and never has a session of its own, an entry
\* in the active-connection registry or a handled message (handling a message
\* is what launches a pipeline run).
C24_BadCredentialsClosedBeforeSession ==
    \A c \in Conns :
        BadCred(c) =>
            /\ ~cn.session[c]
            /\ cn.entry # c
            /\ \A i \in 1..Len(cn.registered) : cn.registered[i] # c
            /\ ~cn.handled[c]
            /\ cn.st[c] \in {"reject", "auth", "gone"}
            /\ cn.st[c] = "gone" => cn.code[c] = CLOSE_UNAUTHORIZED
C24_Witness ==
    \E c, d \in Conns :
        /\ cn.cred[c] = "invalid" /\ cn.st[c] = "gone"
        /\ cn.code[c] = CLOSE_UNAUTHORIZED
        /\ cn.st[d] = "open" /\ cn.handled[d] /\ cn.entry = d

\* C25: for every name that has been registered, get_tool returns the
\* definition the name was registered with first.
C25_FirstRegistrationKept ==
    \A name \in RegNames :
        tl.first[name] # NoDef => GetTool(name) = tl.first[name]

\* C26: after a volume tool ran with no active connection for the device, its
\* result is an error result and session.volume is what it was before the call.
C26_VolumeUnchangedWhenNotSent ==
    (vl.op # "none" /\ ~vl.connected) =>
        (vl.result = "error" /\ vl.volume = vl.before)

\* C27: between two history operations the device's history holds at most
\* MAX_HISTORY entries, and they are the most recent entries in order.
C27_HistoryHoldsLastMaxHistory ==
    hs.pc = "idle" =>
        /\ Len(hs.conv) <= MAX_HISTORY
        /\ hs.conv = LastN(hs.log, MAX_HISTORY)

\* The batch at the socket is the PacedK-th batch after the pre-buffer (of
\* the stream, or of its part since the last resume, which starts the
\* pre-buffer and the pacing over)
PacedK == sb.idx + 1 - PreBuffer
Deadline == sb.pacing_start + PacedK * Period

StartsLaterPhase ==
    /\ run'.pc # run.pc
    /\ run'.pc \in {"tool_exec", "hint_start_send", "music_start_send"}

\* C29: a pipeline run does not go on to run the tool or to send tts_start or
\* music_start while the abort flag is set and stays set, or the connection
\* is closed.
C29_NoLaterPhaseAfterAbort ==
    [][StartsLaterPhase => ~(tts_abort /\ tts_abort') /\ ~ws_closed]_vars

\* C30: while the handler of a long-running tool is unfinished and the abort
\* flag is set and stays set, the executor hands no silence frame to an open
\* connection; and a call that returns while the handler is unfinished and
\* the session aborted or the connection closed has cancelled the handler
\* and returns a silent result.
C30_AbortedCallCancelsAndSendsNoKeepalive ==
    /\ [][(ex.handler = "running" /\ tts_abort /\ tts_abort' /\ ~ws_closed')
            => ~(ex.pc # "keepalive_send" /\ ex'.pc = "keepalive_send")]_vars
    /\ [][(ex.handler = "running" /\ ex.pc \in {"wait_for", "keepalive_send"}
              /\ (tts_abort \/ ws_closed) /\ ex'.pc = "returned")
            => (ex'.result = "silent" /\ ex'.handler = "cancelled")]_vars

\* The run starts to await the tool handler
ToolStarts == run'.pc = "tool_exec" /\ run.pc # "tool_exec"

StepRank(e) ==
    CASE e = "release" -> 1 [] e = "flags" -> 2 [] e = "wait" -> 3
      [] e = "cancel" -> 4 [] e = "meeting" -> 5 [] e = "history" -> 6

\* C32 as stated: the slot in the active-connection registry is released
\* only after every other step of the cleanup.
C32_ReleaseIsLastStep ==
    \A i, j \in 1..Len(dc.log) : dc.log[i] = "release" => j <= i

\* C32 amended: the slot is released first, then the abort flags are set and
\* the gate opened, then the bounded wait and the force-cancel, then the
\* recording and last the conversation history are persisted; and the slot
\* is released before the handler first suspends.
C32_ReleaseFirstThenFlagsWaitPersist ==
    /\ \A i, j \in 1..Len(dc.log) :
          i < j => StepRank(dc.log[i]) < StepRank(dc.log[j])
    /\ dc.log # <<>> => dc.log[1] = "release" /\ ~dc.entry
    /\ dc.pc # "loop" => dc.flags /\ ~dc.entry
    /\ dc.pc = "ended" => dc.log[Len(dc.log)] = "history"

\* A disconnect with a running task that had to be cancelled and with a
\* recording: every step was taken
C32_Witness ==
    /\ dc.pc = "ended"
    /\ dc.log = <<"release", "flags", "wait", "cancel", "meeting", "history">>

\* C33: when _stream_music has returned, the frame source is closed (the
\* finally block of the generator has run).
C33_SourceClosedAtReturn == ms.pc = "returned" => ms.gen = "closed"

\* C34: once an abort has arrived during a delivery of _stream_batched, the
\* delivery hands no further batch to the socket, whatever arrives after it.
C34_NoBatchAfterAbort ==
    [][(sb.mode = "tts" /\ sb.aborted) => ~(sb'.pc = "send" /\ sb' # sb)]_vars

\* C35: while a push is writing its round (tts_start, the batches, tts_end)
\* the session has no pipeline run in flight and is not listening.
C35_PushNeverOverlapsSessionWork ==
    rm.pc \in {"start_send", "stream", "end_send"} =>
        ~processing /\ ~listening

\* C36: a run that has ended on an open connection leaves no TTS round open
\* on the device: the tts_start it sent was followed by a tts_end.
C36_NoRunEndsWithRoundOpen ==
    rd.pc = "ended" /\ ~ws_closed => ~rd.device_round

\* C37: while the latest pipeline run is executing its phases (it passed the
\* empty-audio check and has not ended), session.processing is set: no run
\* that ended or was cancelled has cleared the flag under it.
C37_ProcessingSetWhileRunExecutes ==
    run.pc \in PhasePcs /\ ~run.cancel => processing

\* C38: the frames buffered for one utterance are decoded and transcribed by
\* at most one pipeline run: no second run does so before the next
\* begin-utterance.
C38_BufferDecodedAtMostOnce == ut.decodes <= 1

\* C39: a reminder stored as delivered had every frame of its message
\* written to the device by the push that marked it: _stream_batched was not
\* cut short by the abort flag, a closed connection or a failed write.
C39_DeliveredOnlyWhenAllFramesWritten ==
    \A r \in 1..Len(rm.rem) :
        rm.rem[r].delivered = 1 => rm.rem[r].complete

\* C40: in every session state music_paused is set exactly when the pause
\* gate (session._music_pause_event) is closed.
C40_PausedIffGateClosed == music_paused <=> ~music_pause_event

====
